---- MODULE Spec2Model ----
(***************************************************************************)
(* State-machine model of jerry-core/ecma/base/ecma-helpers-string.c: the  *)
(* reference-counted, tagged ecma-string descriptor, its constructors, the *)
(* acquire / release life cycle with the refcount-overflow deep copy,      *)
(* materialization, concatenation, substring and trim.                     *)
(*                                                                         *)
(* The collaborators the file calls but does not define (block allocator,  *)
(* descriptor and number pools, magic tables, literal store, CESU-8 codec, *)
(* number formatter, hash, GC) are modelled from their documented          *)
(* contracts.                                                              *)
(***************************************************************************)
EXTENDS Integers, Sequences, FiniteSets, TLC

(***************************************************************************)
(* Bounds of the model.                                                    *)
(***************************************************************************)
\* number of entries of the string-descriptor pool
MaxStrings == 3
\* number of block slots of the heap
MaxBlocks == 3
\* number of cells of the number pool
MaxNumbers == 2
\* largest value of the descriptor's refs bit-field (refs wraps modulo MaxRefs + 1)
MaxRefs == 2

(***************************************************************************)
(* Unsigned 32-bit values.  TLC integers are 32-bit signed, so a value n   *)
(* is held as the pair <<n \div WBase, n % WBase>>.                        *)
(***************************************************************************)
WBase == 100000

W(hi, lo) == <<hi, lo>>

WZero == W(0, 0)

WOfInt(n) == W(n \div WBase, n % WBase)

WLess(a, b) == a[1] < b[1] \/ (a[1] = b[1] /\ a[2] < b[2])

WLeq(a, b) == a = b \/ WLess(a, b)

\* a - b, for b <= a
WSub(a, b) ==
    IF a[2] >= b[2] THEN W(a[1] - b[1], a[2] - b[2])
    ELSE W(a[1] - b[1] - 1, a[2] + WBase - b[2])

\* 2^32 = 4294967296
TwoPow32 == W(42949, 67296)

\* UINT32_MAX = 4294967295
UINT32_MAX == W(42949, 67295)

IsUint32(w) == WLess(w, TwoPow32)

\* a % 2^32, for a < 2^33
WModTwoPow32(a) == IF WLess(a, TwoPow32) THEN a ELSE WSub(a, TwoPow32)

\* (uint32_t) -n
Uint32Negate(n) == IF n = WZero THEN WZero ELSE WSub(TwoPow32, n)

(***************************************************************************)
(* Bytes.  A text is a sequence of byte values 0..255.                     *)
(***************************************************************************)
RECURSIVE DigitsOfInt(_)
\* decimal digits of a natural, most significant first, by repeated % 10
DigitsOfInt(n) ==
    IF n < 10 THEN <<48 + n>>
    ELSE Append(DigitsOfInt(n \div 10), 48 + (n % 10))

RECURSIVE ZeroPad(_, _)
ZeroPad(s, width) == IF Len(s) >= width THEN s ELSE ZeroPad(<<48>> \o s, width)

\* decimal digits of a wide natural
WDigits(w) ==
    IF w[1] = 0 THEN DigitsOfInt(w[2])
    ELSE DigitsOfInt(w[1]) \o ZeroPad(DigitsOfInt(w[2]), 5)

\* ecma_uint32_to_utf8_string: the decimal text of a uint32
ecma_uint32_to_utf8_string(n) == WDigits(n)

(***************************************************************************)
(* CESU-8 codec (lit-strings): one code unit is 1, 2 or 3 bytes.           *)
(***************************************************************************)
\* lit_get_unicode_char_size_by_utf8_first_byte
lit_get_unicode_char_size_by_utf8_first_byte(b) ==
    IF b < 128 THEN 1
    ELSE IF b \div 32 = 6 THEN 2
    ELSE 3

RECURSIVE lit_utf8_string_length(_)
\* lit_utf8_string_length: the number of code units of a valid text
lit_utf8_string_length(s) ==
    IF s = <<>> THEN 0
    ELSE LET n == lit_get_unicode_char_size_by_utf8_first_byte(Head(s))
         IN  1 + lit_utf8_string_length(SubSeq(s, n + 1, Len(s)))

RECURSIVE lit_is_cesu8_string_valid(_)
\* lit_is_cesu8_string_valid: every code unit is complete and well formed
lit_is_cesu8_string_valid(s) ==
    IF s = <<>> THEN TRUE
    ELSE LET b == Head(s)
             n == lit_get_unicode_char_size_by_utf8_first_byte(b)
         IN  /\ (b < 128 \/ b \div 32 = 6 \/ b \div 16 = 14)
             /\ Len(s) >= n
             /\ \A i \in 2..n : s[i] \div 64 = 2
             /\ lit_is_cesu8_string_valid(SubSeq(s, n + 1, Len(s)))

\* lit_code_unit_to_utf8: the bytes of one code unit (0 .. 65535)
lit_code_unit_to_utf8(cu) ==
    IF cu < 128 THEN <<cu>>
    ELSE IF cu < 2048 THEN <<192 + (cu \div 64), 128 + (cu % 64)>>
    ELSE <<224 + (cu \div 4096), 128 + ((cu \div 64) % 64), 128 + (cu % 64)>>

\* lit_read_code_unit_from_utf8: the code unit starting at s[1]
lit_read_code_unit_from_utf8(s) ==
    LET b == s[1]
    IN  IF b < 128 THEN b
        ELSE IF b \div 32 = 6 THEN (b % 32) * 64 + (s[2] % 64)
        ELSE (b % 16) * 4096 + (s[2] % 64) * 64 + (s[3] % 64)

RECURSIVE PrevCodeUnitStart(_, _)
\* lit_read_prev_code_unit_from_utf8 walks back over continuation bytes:
\* the index of the first byte of the code unit ending just before index p
PrevCodeUnitStart(s, p) ==
    IF s[p - 1] \div 64 = 2 THEN PrevCodeUnitStart(s, p - 1) ELSE p - 1

\* lit_char_is_white_space \/ lit_char_is_line_terminator
IsWhiteSpaceOrLineTerminator(cu) ==
    cu \in {9, 10, 11, 12, 13, 32, 160, 8232, 8233, 65279}

(***************************************************************************)
(* Hash (lit-strings): FNV-1a folded over the bytes, kept to the width of  *)
(* lit_string_hash_t.  The low bits of (h ^ b) * prime depend only on the  *)
(* low bits of h, so the fold is computed modulo the hash limit.           *)
(***************************************************************************)
\* number of values of lit_string_hash_t
LIT_STRING_HASH_LIMIT == 256

RECURSIVE BitXor(_, _, _)
BitXor(a, b, bits) ==
    IF bits = 0 THEN 0
    ELSE ((a + b) % 2) + 2 * BitXor(a \div 2, b \div 2, bits - 1)

RECURSIVE lit_utf8_string_hash_combine(_, _)
\* lit_utf8_string_hash_combine (hash_basis, bytes)
lit_utf8_string_hash_combine(h, s) ==
    IF s = <<>> THEN h
    ELSE lit_utf8_string_hash_combine(
             (BitXor(h, Head(s), 8) * 147) % LIT_STRING_HASH_LIMIT, Tail(s))

\* lit_utf8_string_calc_hash (bytes): the engine hash, basis 2166136261 % 256
lit_utf8_string_calc_hash(s) == lit_utf8_string_hash_combine(197, s)

(***************************************************************************)
(* Magic string tables (lit-magic-strings).  Ids count from 0; the entry   *)
(* of id i is element i + 1.                                               *)
(***************************************************************************)
\* "", "NaN", "Infinity", "length", "E"
LitMagicStrings ==
    << <<>>,
       <<78, 97, 78>>,
       <<73, 110, 102, 105, 110, 105, 116, 121>>,
       <<108, 101, 110, 103, 116, 104>>,
       <<69>> >>

LIT_MAGIC_STRING__EMPTY == 0

LIT_MAGIC_STRING__COUNT == Len(LitMagicStrings)

\* the table registered by the embedding application: "xy", "1.5"
LitMagicStringsEx == << <<120, 121>>, <<49, 46, 53>> >>

lit_get_magic_string_ex_count == Len(LitMagicStringsEx)

lit_get_magic_string_utf8(id) == LitMagicStrings[id + 1]

lit_get_magic_string_size(id) == Len(LitMagicStrings[id + 1])

lit_get_magic_string_ex_utf8(id) == LitMagicStringsEx[id + 1]

lit_get_magic_string_ex_size(id) == Len(LitMagicStringsEx[id + 1])

\* lit_is_utf8_string_magic: the first id whose entry equals the bytes,
\* LIT_MAGIC_STRING__COUNT when there is none
lit_is_utf8_string_magic(s) ==
    LET hits == {id \in 0..(LIT_MAGIC_STRING__COUNT - 1) : lit_get_magic_string_utf8(id) = s}
    IN  IF hits = {} THEN LIT_MAGIC_STRING__COUNT
        ELSE CHOOSE id \in hits : \A other \in hits : id <= other

\* lit_is_ex_utf8_string_magic
lit_is_ex_utf8_string_magic(s) ==
    LET hits == {id \in 0..(lit_get_magic_string_ex_count - 1) : lit_get_magic_string_ex_utf8(id) = s}
    IN  IF hits = {} THEN lit_get_magic_string_ex_count
        ELSE CHOOSE id \in hits : \A other \in hits : id <= other

(***************************************************************************)
(* Literal store (lit-literal-storage).  A compressed literal pointer is   *)
(* an index of the table; a literal is a charset record, a reference to a  *)
(* magic string or a reference to an external magic string.                *)
(***************************************************************************)
\* charset "42", charset "ab", magic "length", external magic "xy",
\* charset U+0000 "ka"
LitTable ==
    << [kind |-> "charset",  bytes |-> <<52, 50>>, id |-> 0],
       [kind |-> "charset",  bytes |-> <<97, 98>>, id |-> 0],
       [kind |-> "magic",    bytes |-> <<>>,       id |-> 3],
       [kind |-> "magic_ex", bytes |-> <<>>,       id |-> 0],
       [kind |-> "charset",  bytes |-> <<0, 107, 97>>, id |-> 0] >>

lit_cpointer_decompress(lit_cp) == LitTable[lit_cp]

LIT_RECORD_IS_MAGIC_STR(lit) == lit.kind = "magic"

LIT_RECORD_IS_MAGIC_STR_EX(lit) == lit.kind = "magic_ex"

LIT_RECORD_IS_CHARSET(lit) == lit.kind = "charset"

lit_charset_literal_get_charset(lit) == lit.bytes

lit_charset_literal_get_size(lit) == Len(lit.bytes)

lit_charset_literal_get_length(lit) == lit_utf8_string_length(lit.bytes)

\* the hash the literal store computed when the literal was created
lit_charset_literal_get_hash(lit) == lit_utf8_string_calc_hash(lit.bytes)

(***************************************************************************)
(* ecma-numbers (ecma-helpers-number, ecma-helpers-conversion).  A number  *)
(* is NaN, an infinity, or the finite value (+/-)(w + half / 2) with w a   *)
(* wide natural below 2^33; +0 and -0 are distinct values.                 *)
(***************************************************************************)
NumNaN == [k |-> "nan", neg |-> FALSE, w |-> WZero, half |-> FALSE]

NumInf(neg) == [k |-> "inf", neg |-> neg, w |-> WZero, half |-> FALSE]

NumFin(neg, w, half) == [k |-> "fin", neg |-> neg, w |-> w, half |-> half]

ECMA_NUMBER_ZERO == NumFin(FALSE, WZero, FALSE)

ecma_number_is_nan(num) == num.k = "nan"

ecma_number_is_infinity(num) == num.k = "inf"

ecma_number_is_zero(num) == num.k = "fin" /\ num.w = WZero /\ ~num.half

ecma_number_is_negative(num) == num.neg

\* the C operator == on two ecma-numbers (IEEE 754)
NumberEq(x, y) ==
    /\ ~ecma_number_is_nan(x)
    /\ ~ecma_number_is_nan(y)
    /\ \/ (ecma_number_is_zero(x) /\ ecma_number_is_zero(y))
       \/ x = y

\* ecma_uint32_to_number
ecma_uint32_to_number(n) == NumFin(FALSE, n, FALSE)

\* ecma_number_to_uint32: ToUint32 of ECMA-262 v5, 9.6
ecma_number_to_uint32(num) ==
    IF ecma_number_is_nan(num) \/ ecma_number_is_zero(num) \/ ecma_number_is_infinity(num)
    THEN WZero
    ELSE LET uint32_num == WModTwoPow32(num.w)
         IN  IF ecma_number_is_negative(num) THEN Uint32Negate(uint32_num) ELSE uint32_num

\* ecma_number_to_utf8_string: ToString of ECMA-262 v5, 9.8.1
ecma_number_to_utf8_string(num) ==
    IF ecma_number_is_nan(num) THEN <<78, 97, 78>>
    ELSE IF ecma_number_is_zero(num) THEN <<48>>
    ELSE LET sign == IF ecma_number_is_negative(num) THEN <<45>> ELSE <<>>
         IN  IF ecma_number_is_infinity(num)
             THEN sign \o <<73, 110, 102, 105, 110, 105, 116, 121>>
             ELSE sign \o WDigits(num.w) \o (IF num.half THEN <<46, 53>> ELSE <<>>)

(***************************************************************************)
(* Program state.                                                          *)
(***************************************************************************)
VARIABLES
    strings,   \* the string-descriptor pool: pointer -> ecma_string_t
    heap,      \* the heap: block pointer -> header and bytes
    numbers,   \* the number pool: cell pointer -> ecma_number_t
    fault,     \* "none", or the memory fault the last operation ran into
    last       \* the last operation: its name, operands, result and calls

vars == <<strings, heap, numbers, fault, last>>

ECMA_STRING_CONTAINER_LIT_TABLE == "LIT_TABLE"

ECMA_STRING_CONTAINER_MAGIC_STRING == "MAGIC_STRING"

ECMA_STRING_CONTAINER_MAGIC_STRING_EX == "MAGIC_STRING_EX"

ECMA_STRING_CONTAINER_UINT32_IN_DESC == "UINT32_IN_DESC"

ECMA_STRING_CONTAINER_HEAP_NUMBER == "HEAP_NUMBER"

ECMA_STRING_CONTAINER_HEAP_CHUNKS == "HEAP_CHUNKS"

\* sizeof (ecma_string_heap_header_t): two uint16_t fields
HeaderSize == 4

\* number of values of a uint16_t header field
Uint16Limit == 65536

\* number of values of the refs bit-field
RefsLimit == MaxRefs + 1

\* a pool entry that holds no descriptor
NoString == [refs |-> 0, container |-> "FREE", hash |-> 0, u |-> WZero]

\* a heap slot that holds no block
NoBlock == [live |-> FALSE, alloc |-> 0, size |-> 0, length |-> 0, bytes |-> <<>>]

\* a number cell that is not allocated
NoNumber == [live |-> FALSE, num |-> ECMA_NUMBER_ZERO]

StringPtrs == 1..MaxStrings

BlockPtrs == 1..MaxBlocks

NumberPtrs == 1..MaxNumbers

\* the payload union read as one word (u.common_field); pointers and ids
\* are held as wide naturals like u.uint32_number
Word(n) == WOfInt(n)

PtrOf(u) == u[2]

IsLive(strs, d) == strs[d].container # "FREE"

\* the state an operation works on, with the calls it has made so far
Cur ==
    [strings |-> strings, heap |-> heap, numbers |-> numbers,
     calls |-> <<>>, fault |-> "none", oom |-> FALSE]

Call(st, f, p, n) == [st EXCEPT !.calls = Append(@, [f |-> f, p |-> p, n |-> n])]

Fault(st, what) == [st EXCEPT !.fault = IF @ = "none" THEN what ELSE @]

LowestFree(S, used(_)) == CHOOSE p \in S : ~used(p) /\ \A q \in S : q < p => used(q)

(***************************************************************************)
(* Allocators (ecma-alloc, mem-heap).  Each hands out the lowest free      *)
(* slot; an exhausted pool sets oom, which disables the operation.         *)
(***************************************************************************)
\* ecma_alloc_string
ecma_alloc_string(st) ==
    IF st.oom \/ \A p \in StringPtrs : IsLive(st.strings, p)
    THEN [st |-> [st EXCEPT !.oom = TRUE], p |-> 0]
    ELSE LET p == LowestFree(StringPtrs, LAMBDA q : IsLive(st.strings, q))
         IN  [st |-> Call(st, "ecma_alloc_string", p, 0), p |-> p]

\* ecma_dealloc_string
ecma_dealloc_string(st, p) ==
    Call([st EXCEPT !.strings[p] = NoString], "ecma_dealloc_string", p, 0)

\* mem_heap_alloc_block (size)
mem_heap_alloc_block(st, size) ==
    IF st.oom \/ \A p \in BlockPtrs : st.heap[p].live
    THEN [st |-> [st EXCEPT !.oom = TRUE], p |-> 0]
    ELSE LET p == LowestFree(BlockPtrs, LAMBDA q : st.heap[q].live)
         IN  [st |-> Call([st EXCEPT !.heap[p] = [NoBlock EXCEPT !.live = TRUE, !.alloc = size]],
                          "mem_heap_alloc_block", p, size),
              p |-> p]

\* mem_heap_free_block (ptr, size); freeing a block that is not allocated
\* is a double free
mem_heap_free_block(st, p, size) ==
    IF st.heap[p].live
    THEN Call([st EXCEPT !.heap[p] = NoBlock], "mem_heap_free_block", p, size)
    ELSE Fault(Call(st, "mem_heap_free_block", p, size), "double_free")

\* a scratch buffer (MEM_DEFINE_LOCAL_ARRAY, or a temporary heap block):
\* allocated and freed inside one operation, it never outlives the call
ScratchAlloc(st, size) ==
    IF size = 0 THEN st ELSE Call(st, "mem_heap_alloc_block", 0, size)

ScratchFree(st, size) ==
    IF size = 0 THEN st ELSE Call(st, "mem_heap_free_block", 0, size)

\* ecma_alloc_number
ecma_alloc_number(st) ==
    IF st.oom \/ \A p \in NumberPtrs : st.numbers[p].live
    THEN [st |-> [st EXCEPT !.oom = TRUE], p |-> 0]
    ELSE LET p == LowestFree(NumberPtrs, LAMBDA q : st.numbers[q].live)
         IN  [st |-> Call([st EXCEPT !.numbers[p] = [live |-> TRUE, num |-> ECMA_NUMBER_ZERO]],
                          "ecma_alloc_number", p, 0),
              p |-> p]

\* ecma_dealloc_number
ecma_dealloc_number(st, p) ==
    IF st.numbers[p].live
    THEN Call([st EXCEPT !.numbers[p] = NoNumber], "ecma_dealloc_number", p, 0)
    ELSE Fault(Call(st, "ecma_dealloc_number", p, 0), "double_free")

(***************************************************************************)
(* Reading a descriptor.                                                   *)
(***************************************************************************)
\* ECMA_GET_NON_NULL_POINTER (ecma_string_heap_header_t, u.collection_cp)
HeapHeader(st, d) == st.heap[PtrOf(st.strings[d].u)]

\* ECMA_GET_NON_NULL_POINTER (ecma_number_t, u.number_cp)
HeapNumber(st, d) == st.numbers[PtrOf(st.strings[d].u)].num

\* the descriptor's payload pointer refers to a block or cell that is freed
IsDangling(st, d) ==
    LET s == st.strings[d]
    IN  \/ s.container = ECMA_STRING_CONTAINER_HEAP_CHUNKS /\ ~st.heap[PtrOf(s.u)].live
        \/ s.container = ECMA_STRING_CONTAINER_HEAP_NUMBER /\ ~st.numbers[PtrOf(s.u)].live

\* ecma_string_get_number_in_desc_size: digits counted against the table
\* nums_with_ascending_length
nums_with_ascending_length ==
    << WOfInt(1), WOfInt(10), WOfInt(100), WOfInt(1000), WOfInt(10000), WOfInt(100000),
       WOfInt(1000000), WOfInt(10000000), WOfInt(100000000), WOfInt(1000000000) >>

max_uint32_len == Len(nums_with_ascending_length)

RECURSIVE NumberInDescSizeFrom(_, _)
NumberInDescSizeFrom(uint32_number, size) ==
    IF size < max_uint32_len /\ WLeq(nums_with_ascending_length[size + 1], uint32_number)
    THEN NumberInDescSizeFrom(uint32_number, size + 1)
    ELSE size

RECURSIVE NumberInDescSizeAbove(_, _)
NumberInDescSizeAbove(uint32_number, size) ==
    IF size < max_uint32_len /\ WLess(nums_with_ascending_length[size + 1], uint32_number)
    THEN NumberInDescSizeAbove(uint32_number, size + 1)
    ELSE size

\* a faulty ecma_string_get_number_in_desc_size: the loop goes on only while
\* the number is above the table entry, not while it is at least the entry
number_in_desc_size_above_entry(uint32_number) == NumberInDescSizeAbove(uint32_number, 1)

ecma_string_get_number_in_desc_size(uint32_number) == NumberInDescSizeFrom(uint32_number, 1)

\* ecma_string_get_heap_number_size
ecma_string_get_heap_number_size(st, d) == Len(ecma_number_to_utf8_string(HeapNumber(st, d)))

\* ecma_string_get_size
ecma_string_get_size(st, d) ==
    LET s == st.strings[d]
    IN  CASE s.container = ECMA_STRING_CONTAINER_LIT_TABLE ->
               lit_charset_literal_get_size(lit_cpointer_decompress(PtrOf(s.u)))
          [] s.container = ECMA_STRING_CONTAINER_MAGIC_STRING ->
               lit_get_magic_string_size(PtrOf(s.u))
          [] s.container = ECMA_STRING_CONTAINER_MAGIC_STRING_EX ->
               lit_get_magic_string_ex_size(PtrOf(s.u))
          [] s.container = ECMA_STRING_CONTAINER_UINT32_IN_DESC ->
               ecma_string_get_number_in_desc_size(s.u)
          [] s.container = ECMA_STRING_CONTAINER_HEAP_NUMBER ->
               ecma_string_get_heap_number_size(st, d)
          [] OTHER -> HeapHeader(st, d).size

\* ecma_string_get_length
ecma_string_get_length(st, d) ==
    LET s == st.strings[d]
    IN  CASE s.container = ECMA_STRING_CONTAINER_LIT_TABLE ->
               lit_charset_literal_get_length(lit_cpointer_decompress(PtrOf(s.u)))
          [] s.container = ECMA_STRING_CONTAINER_MAGIC_STRING ->
               lit_utf8_string_length(lit_get_magic_string_utf8(PtrOf(s.u)))
          [] s.container = ECMA_STRING_CONTAINER_MAGIC_STRING_EX ->
               lit_utf8_string_length(lit_get_magic_string_ex_utf8(PtrOf(s.u)))
          [] s.container = ECMA_STRING_CONTAINER_UINT32_IN_DESC ->
               ecma_string_get_number_in_desc_size(s.u)
          [] s.container = ECMA_STRING_CONTAINER_HEAP_NUMBER ->
               ecma_string_get_heap_number_size(st, d)
          [] OTHER -> HeapHeader(st, d).length

\* a faulty ecma_string_to_utf8_string: a buffer of exactly the required
\* size is refused
to_utf8_string_refusing_exact_fit(st, d, buffer_size) ==
    LET s == st.strings[d]
        required_buffer_size == ecma_string_get_size(st, d)
    IN  IF required_buffer_size >= buffer_size \/ buffer_size = 0
        THEN [ret |-> 0 - required_buffer_size, buf |-> <<>>]
        ELSE [ret |-> required_buffer_size,
              buf |->
                CASE s.container = ECMA_STRING_CONTAINER_HEAP_CHUNKS ->
                       SubSeq(HeapHeader(st, d).bytes, 1, HeapHeader(st, d).size)
                  [] s.container = ECMA_STRING_CONTAINER_LIT_TABLE ->
                       lit_charset_literal_get_charset(lit_cpointer_decompress(PtrOf(s.u)))
                  [] s.container = ECMA_STRING_CONTAINER_UINT32_IN_DESC ->
                       ecma_uint32_to_utf8_string(s.u)
                  [] s.container = ECMA_STRING_CONTAINER_HEAP_NUMBER ->
                       ecma_number_to_utf8_string(HeapNumber(st, d))
                  [] s.container = ECMA_STRING_CONTAINER_MAGIC_STRING ->
                       lit_get_magic_string_utf8(PtrOf(s.u))
                  [] OTHER ->
                       lit_get_magic_string_ex_utf8(PtrOf(s.u))]

\* a faulty ecma_string_to_utf8_string: a buffer that is too small is
\* reported by the size itself, not by its negation
to_utf8_string_reporting_size_unsigned(st, d, buffer_size) ==
    LET s == st.strings[d]
        required_buffer_size == ecma_string_get_size(st, d)
    IN  IF required_buffer_size > buffer_size \/ buffer_size = 0
        THEN [ret |-> required_buffer_size, buf |-> <<>>]
        ELSE [ret |-> required_buffer_size,
              buf |->
                CASE s.container = ECMA_STRING_CONTAINER_HEAP_CHUNKS ->
                       SubSeq(HeapHeader(st, d).bytes, 1, HeapHeader(st, d).size)
                  [] s.container = ECMA_STRING_CONTAINER_LIT_TABLE ->
                       lit_charset_literal_get_charset(lit_cpointer_decompress(PtrOf(s.u)))
                  [] s.container = ECMA_STRING_CONTAINER_UINT32_IN_DESC ->
                       ecma_uint32_to_utf8_string(s.u)
                  [] s.container = ECMA_STRING_CONTAINER_HEAP_NUMBER ->
                       ecma_number_to_utf8_string(HeapNumber(st, d))
                  [] s.container = ECMA_STRING_CONTAINER_MAGIC_STRING ->
                       lit_get_magic_string_utf8(PtrOf(s.u))
                  [] OTHER ->
                       lit_get_magic_string_ex_utf8(PtrOf(s.u))]

\* ecma_string_to_utf8_string: ret is the returned ssize_t, buf the bytes
\* written to the buffer
ecma_string_to_utf8_string(st, d, buffer_size) ==
    LET s == st.strings[d]
        required_buffer_size == ecma_string_get_size(st, d)
    IN  IF required_buffer_size > buffer_size \/ buffer_size = 0
        THEN [ret |-> 0 - required_buffer_size, buf |-> <<>>]
        ELSE [ret |-> required_buffer_size,
              buf |->
                CASE s.container = ECMA_STRING_CONTAINER_HEAP_CHUNKS ->
                       SubSeq(HeapHeader(st, d).bytes, 1, HeapHeader(st, d).size)
                  [] s.container = ECMA_STRING_CONTAINER_LIT_TABLE ->
                       lit_charset_literal_get_charset(lit_cpointer_decompress(PtrOf(s.u)))
                  [] s.container = ECMA_STRING_CONTAINER_UINT32_IN_DESC ->
                       ecma_uint32_to_utf8_string(s.u)
                  [] s.container = ECMA_STRING_CONTAINER_HEAP_NUMBER ->
                       ecma_number_to_utf8_string(HeapNumber(st, d))
                  [] s.container = ECMA_STRING_CONTAINER_MAGIC_STRING ->
                       lit_get_magic_string_utf8(PtrOf(s.u))
                  [] OTHER ->
                       lit_get_magic_string_ex_utf8(PtrOf(s.u))]

\* the logical bytes of a descriptor: what materializing it into a buffer
\* of its own byte-size writes
Materialize(st, d) == ecma_string_to_utf8_string(st, d, ecma_string_get_size(st, d)).buf

(***************************************************************************)
(* Constructors.  Each returns [st |-> the state after, ret |-> the        *)
(* descriptor returned].                                                   *)
(***************************************************************************)
\* ecma_init_ecma_string_from_magic_string_id
ecma_init_ecma_string_from_magic_string_id(st, p, magic_string_id) ==
    [st EXCEPT !.strings[p] =
        [refs |-> 1,
         container |-> ECMA_STRING_CONTAINER_MAGIC_STRING,
         hash |-> lit_utf8_string_calc_hash(lit_get_magic_string_utf8(magic_string_id)),
         u |-> Word(magic_string_id)]]

\* ecma_init_ecma_string_from_magic_string_ex_id
ecma_init_ecma_string_from_magic_string_ex_id(st, p, magic_string_ex_id) ==
    [st EXCEPT !.strings[p] =
        [refs |-> 1,
         container |-> ECMA_STRING_CONTAINER_MAGIC_STRING_EX,
         hash |-> lit_utf8_string_calc_hash(lit_get_magic_string_ex_utf8(magic_string_ex_id)),
         u |-> Word(magic_string_ex_id)]]

\* ecma_init_ecma_string_from_lit_cp
ecma_init_ecma_string_from_lit_cp(st, p, lit_cp) ==
    LET lit == lit_cpointer_decompress(lit_cp)
    IN  IF LIT_RECORD_IS_MAGIC_STR(lit)
        THEN ecma_init_ecma_string_from_magic_string_id(st, p, lit.id)
        ELSE IF LIT_RECORD_IS_MAGIC_STR_EX(lit)
        THEN ecma_init_ecma_string_from_magic_string_ex_id(st, p, lit.id)
        ELSE [st EXCEPT !.strings[p] =
                 [refs |-> 1,
                  container |-> ECMA_STRING_CONTAINER_LIT_TABLE,
                  hash |-> lit_charset_literal_get_hash(lit),
                  u |-> Word(lit_cp)]]

\* ecma_new_ecma_string_from_magic_string_id, ecma_get_magic_string
ecma_new_ecma_string_from_magic_string_id(st, id) ==
    LET a == ecma_alloc_string(st)
    IN  IF a.st.oom THEN [st |-> a.st, ret |-> 0]
        ELSE [st |-> ecma_init_ecma_string_from_magic_string_id(a.st, a.p, id), ret |-> a.p]

ecma_get_magic_string(st, id) == ecma_new_ecma_string_from_magic_string_id(st, id)

\* ecma_new_ecma_string_from_magic_string_ex_id, ecma_get_magic_string_ex
ecma_new_ecma_string_from_magic_string_ex_id(st, id) ==
    LET a == ecma_alloc_string(st)
    IN  IF a.st.oom THEN [st |-> a.st, ret |-> 0]
        ELSE [st |-> ecma_init_ecma_string_from_magic_string_ex_id(a.st, a.p, id), ret |-> a.p]

ecma_get_magic_string_ex(st, id) == ecma_new_ecma_string_from_magic_string_ex_id(st, id)

\* ecma_new_ecma_string_from_lit_cp
ecma_new_ecma_string_from_lit_cp(st, lit_cp) ==
    LET a == ecma_alloc_string(st)
    IN  IF a.st.oom THEN [st |-> a.st, ret |-> 0]
        ELSE [st |-> ecma_init_ecma_string_from_lit_cp(a.st, a.p, lit_cp), ret |-> a.p]

\* the heap-chunk branch of ecma_new_ecma_string_from_utf8: a descriptor
\* and a block of string_size + header bytes
NewHeapChunks(st, string_p) ==
    LET string_size == Len(string_p)
        a == ecma_alloc_string(st)
        data_size == string_size + HeaderSize
        b == mem_heap_alloc_block(a.st, data_size)
    IN  IF b.st.oom THEN [st |-> b.st, ret |-> 0]
        ELSE [st |-> [b.st EXCEPT
                        !.strings[a.p] =
                            [refs |-> 1,
                             container |-> ECMA_STRING_CONTAINER_HEAP_CHUNKS,
                             hash |-> lit_utf8_string_calc_hash(string_p),
                             u |-> Word(b.p)],
                        !.heap[b.p].size = string_size % Uint16Limit,
                        !.heap[b.p].length = lit_utf8_string_length(string_p) % Uint16Limit,
                        !.heap[b.p].bytes = string_p],
              ret |-> a.p]

\* a faulty ecma_new_ecma_string_from_utf8: the lookup in the extended
\* magic table is left out
from_utf8_without_ex_lookup(st, string_p) ==
    LET magic_string_id == lit_is_utf8_string_magic(string_p)
    IN  IF magic_string_id < LIT_MAGIC_STRING__COUNT
        THEN ecma_get_magic_string(st, magic_string_id)
        ELSE NewHeapChunks(st, string_p)

\* ecma_new_ecma_string_from_utf8
ecma_new_ecma_string_from_utf8(st, string_p) ==
    LET magic_string_id == lit_is_utf8_string_magic(string_p)
        magic_string_ex_id == lit_is_ex_utf8_string_magic(string_p)
    IN  IF magic_string_id < LIT_MAGIC_STRING__COUNT
        THEN ecma_get_magic_string(st, magic_string_id)
        ELSE IF magic_string_ex_id < lit_get_magic_string_ex_count
        THEN ecma_get_magic_string_ex(st, magic_string_ex_id)
        ELSE NewHeapChunks(st, string_p)

\* ecma_new_ecma_string_from_code_unit
ecma_new_ecma_string_from_code_unit(st, code_unit) ==
    ecma_new_ecma_string_from_utf8(st, lit_code_unit_to_utf8(code_unit))

\* ecma_new_ecma_string_from_uint32
ecma_new_ecma_string_from_uint32(st, uint32_number) ==
    LET a == ecma_alloc_string(st)
        byte_buf == ecma_uint32_to_utf8_string(uint32_number)
    IN  IF a.st.oom THEN [st |-> a.st, ret |-> 0]
        ELSE [st |-> [a.st EXCEPT !.strings[a.p] =
                         [refs |-> 1,
                          container |-> ECMA_STRING_CONTAINER_UINT32_IN_DESC,
                          hash |-> lit_utf8_string_calc_hash(byte_buf),
                          u |-> uint32_number]],
              ret |-> a.p]

\* the heap-number branch of ecma_new_ecma_string_from_number
NewHeapNumber(st, num, str_buf) ==
    LET a == ecma_alloc_string(st)
        n == ecma_alloc_number(a.st)
    IN  IF n.st.oom THEN [st |-> n.st, ret |-> 0]
        ELSE [st |-> [n.st EXCEPT
                        !.strings[a.p] =
                            [refs |-> 1,
                             container |-> ECMA_STRING_CONTAINER_HEAP_NUMBER,
                             hash |-> lit_utf8_string_calc_hash(str_buf),
                             u |-> Word(n.p)],
                        !.numbers[n.p].num = num],
              ret |-> a.p]

\* a faulty ecma_new_ecma_string_from_number: the uint32 round trip is
\* left out
from_number_without_uint32_case(st, num) ==
    LET str_buf == ecma_number_to_utf8_string(num)
        magic_string_id == lit_is_utf8_string_magic(str_buf)
        magic_string_ex_id == lit_is_ex_utf8_string_magic(str_buf)
    IN  IF magic_string_id < LIT_MAGIC_STRING__COUNT
        THEN ecma_get_magic_string(st, magic_string_id)
        ELSE IF magic_string_ex_id < lit_get_magic_string_ex_count
        THEN ecma_get_magic_string_ex(st, magic_string_ex_id)
        ELSE NewHeapNumber(st, num, str_buf)

\* ecma_new_ecma_string_from_number
ecma_new_ecma_string_from_number(st, num) ==
    LET uint32_num == ecma_number_to_uint32(num)
        str_buf == ecma_number_to_utf8_string(num)
        magic_string_id == lit_is_utf8_string_magic(str_buf)
        magic_string_ex_id == lit_is_ex_utf8_string_magic(str_buf)
    IN  IF NumberEq(num, ecma_uint32_to_number(uint32_num))
        THEN ecma_new_ecma_string_from_uint32(st, uint32_num)
        ELSE IF magic_string_id < LIT_MAGIC_STRING__COUNT
        THEN ecma_get_magic_string(st, magic_string_id)
        ELSE IF magic_string_ex_id < lit_get_magic_string_ex_count
        THEN ecma_get_magic_string_ex(st, magic_string_ex_id)
        ELSE NewHeapNumber(st, num, str_buf)

(***************************************************************************)
(* Reference counting.                                                     *)
(***************************************************************************)
\* a faulty ecma_deref_ecma_string: the descriptor goes back to its pool
\* before the payload is freed
deref_freeing_descriptor_first(st, string_p) ==
    LET s == st.strings[string_p]
        st1 == [st EXCEPT !.strings[string_p].refs = (s.refs + RefsLimit - 1) % RefsLimit]
    IN  IF st1.strings[string_p].refs # 0 THEN st1
        ELSE LET st2 == ecma_dealloc_string(st1, string_p)
             IN  CASE s.container = ECMA_STRING_CONTAINER_HEAP_CHUNKS ->
                        mem_heap_free_block(st2, PtrOf(s.u), HeapHeader(st1, string_p).size + HeaderSize)
                   [] s.container = ECMA_STRING_CONTAINER_HEAP_NUMBER ->
                        ecma_dealloc_number(st2, PtrOf(s.u))
                   [] OTHER -> st2

\* ecma_deref_ecma_string
ecma_deref_ecma_string(st, string_p) ==
    LET s == st.strings[string_p]
        st1 == [st EXCEPT !.strings[string_p].refs = (s.refs + RefsLimit - 1) % RefsLimit]
    IN  IF st1.strings[string_p].refs # 0 THEN st1
        ELSE LET st2 ==
                   CASE s.container = ECMA_STRING_CONTAINER_HEAP_CHUNKS ->
                          mem_heap_free_block(st1, PtrOf(s.u), HeapHeader(st1, string_p).size + HeaderSize)
                     [] s.container = ECMA_STRING_CONTAINER_HEAP_NUMBER ->
                          ecma_dealloc_number(st1, PtrOf(s.u))
                     [] OTHER -> st1
             IN  ecma_dealloc_string(st2, string_p)

RECURSIVE ecma_gc_run(_, _, _)
\* ecma_gc_run, as far as this file can see it: the objects the pass frees
\* release `released` of the references they hold to the string
ecma_gc_run(st, string_desc_p, released) ==
    IF released = 0 THEN st
    ELSE ecma_gc_run(ecma_deref_ecma_string(st, string_desc_p), string_desc_p, released - 1)

\* the ECMA_STRING_CONTAINER_HEAP_CHUNKS case of ecma_copy_ecma_string:
\* the pointer stored in the new descriptor is data_p, the original's block
CopyHeapChunks(st, string_desc_p) ==
    LET a == ecma_alloc_string(st)
        data_p == HeapHeader(st, string_desc_p)
        data_size == data_p.size + HeaderSize
        b == mem_heap_alloc_block(a.st, data_size)
        st1 == IF data_p.live THEN b.st ELSE Fault(b.st, "use_after_free")
    IN  IF b.st.oom THEN [st |-> b.st, ret |-> 0]
        ELSE [st |-> [st1 EXCEPT
                        !.strings[a.p] = [st.strings[string_desc_p] EXCEPT !.refs = 1],
                        !.heap[b.p].size = data_p.size,
                        !.heap[b.p].length = data_p.length,
                        !.heap[b.p].bytes = SubSeq(data_p.bytes, 1, data_p.size),
                        !.strings[a.p].u = st.strings[string_desc_p].u],
              ret |-> a.p]

\* ecma_copy_ecma_string
ecma_copy_ecma_string(st, string_desc_p) ==
    LET s == st.strings[string_desc_p]
    IN  CASE s.container = ECMA_STRING_CONTAINER_HEAP_NUMBER ->
               ecma_new_ecma_string_from_number(st, HeapNumber(st, string_desc_p))
          [] s.container = ECMA_STRING_CONTAINER_HEAP_CHUNKS ->
               CopyHeapChunks(st, string_desc_p)
          [] OTHER ->
               LET a == ecma_alloc_string(st)
               IN  IF a.st.oom THEN [st |-> a.st, ret |-> 0]
                   ELSE [st |-> [a.st EXCEPT !.strings[a.p] = [s EXCEPT !.refs = 1]],
                         ret |-> a.p]

\* a faulty ecma_copy_or_ref_ecma_string: the wrapped counter is not put
\* back to its maximum
copy_or_ref_leaving_wrapped_counter(st, string_desc_p, released) ==
    LET st1 == [st EXCEPT !.strings[string_desc_p].refs = (@ + 1) % RefsLimit]
    IN  IF st1.strings[string_desc_p].refs = 0
        THEN LET current_refs == st1.strings[string_desc_p].refs
                 st3 == Call(st1, "ecma_lcache_invalidate_all", 0, 0)
                 st4 == ecma_gc_run(Call(st3, "ecma_gc_run", 0, 0), string_desc_p, released)
             IN  IF current_refs = st4.strings[string_desc_p].refs
                 THEN LET c == ecma_copy_ecma_string(st4, string_desc_p)
                      IN  [st |-> c.st, ret |-> c.ret, ovf |-> TRUE]
                 ELSE [st |-> [st4 EXCEPT !.strings[string_desc_p].refs = (@ + 1) % RefsLimit],
                       ret |-> string_desc_p, ovf |-> TRUE]
        ELSE [st |-> st1, ret |-> string_desc_p, ovf |-> FALSE]

\* a faulty ecma_copy_or_ref_ecma_string: after the GC pass the descriptor
\* is copied whether or not its counter went down
copy_or_ref_always_copying(st, string_desc_p, released) ==
    LET st1 == [st EXCEPT !.strings[string_desc_p].refs = (@ + 1) % RefsLimit]
    IN  IF st1.strings[string_desc_p].refs = 0
        THEN LET st2 == [st1 EXCEPT !.strings[string_desc_p].refs = (@ + RefsLimit - 1) % RefsLimit]
                 st3 == Call(st2, "ecma_lcache_invalidate_all", 0, 0)
                 st4 == ecma_gc_run(Call(st3, "ecma_gc_run", 0, 0), string_desc_p, released)
                 c == ecma_copy_ecma_string(st4, string_desc_p)
             IN  [st |-> c.st, ret |-> c.ret, ovf |-> TRUE]
        ELSE [st |-> st1, ret |-> string_desc_p, ovf |-> FALSE]

\* a faulty ecma_copy_or_ref_ecma_string: the GC pass runs before the
\* lookup cache is invalidated
copy_or_ref_running_gc_first(st, string_desc_p, released) ==
    LET st1 == [st EXCEPT !.strings[string_desc_p].refs = (@ + 1) % RefsLimit]
    IN  IF st1.strings[string_desc_p].refs = 0
        THEN LET st2 == [st1 EXCEPT !.strings[string_desc_p].refs = (@ + RefsLimit - 1) % RefsLimit]
                 current_refs == st2.strings[string_desc_p].refs
                 st3 == ecma_gc_run(Call(st2, "ecma_gc_run", 0, 0), string_desc_p, released)
                 st4 == Call(st3, "ecma_lcache_invalidate_all", 0, 0)
             IN  IF current_refs = st4.strings[string_desc_p].refs
                 THEN LET c == ecma_copy_ecma_string(st4, string_desc_p)
                      IN  [st |-> c.st, ret |-> c.ret, ovf |-> TRUE]
                 ELSE [st |-> [st4 EXCEPT !.strings[string_desc_p].refs = (@ + 1) % RefsLimit],
                       ret |-> string_desc_p, ovf |-> TRUE]
        ELSE [st |-> st1, ret |-> string_desc_p, ovf |-> FALSE]

\* ecma_copy_or_ref_ecma_string; `released` is what the GC pass releases
\* when the counter overflows.  ovf tells whether the increment wrapped.
ecma_copy_or_ref_ecma_string(st, string_desc_p, released) ==
    LET st1 == [st EXCEPT !.strings[string_desc_p].refs = (@ + 1) % RefsLimit]
    IN  IF st1.strings[string_desc_p].refs = 0
        THEN LET st2 == [st1 EXCEPT !.strings[string_desc_p].refs = (@ + RefsLimit - 1) % RefsLimit]
                 current_refs == st2.strings[string_desc_p].refs
                 st3 == Call(st2, "ecma_lcache_invalidate_all", 0, 0)
                 st4 == ecma_gc_run(Call(st3, "ecma_gc_run", 0, 0), string_desc_p, released)
             IN  IF current_refs = st4.strings[string_desc_p].refs
                 THEN LET c == ecma_copy_ecma_string(st4, string_desc_p)
                      IN  [st |-> c.st, ret |-> c.ret, ovf |-> TRUE]
                 ELSE [st |-> [st4 EXCEPT !.strings[string_desc_p].refs = (@ + 1) % RefsLimit],
                       ret |-> string_desc_p, ovf |-> TRUE]
        ELSE [st |-> st1, ret |-> string_desc_p, ovf |-> FALSE]

(***************************************************************************)
(* Concatenation, substring, trim.                                         *)
(***************************************************************************)
\* a faulty ecma_concat_ecma_strings: the header length is the number of
\* bytes, not of code units
concat_counting_bytes_as_code_units(st, string1_p, string2_p) ==
    LET str1_size == ecma_string_get_size(st, string1_p)
        str2_size == ecma_string_get_size(st, string2_p)
        new_size == str1_size + str2_size
        a == ecma_alloc_string(st)
        data_size == new_size + HeaderSize
        b == mem_heap_alloc_block(a.st, data_size)
        copied1 == ecma_string_to_utf8_string(st, string1_p, str1_size)
        copied2 == ecma_string_to_utf8_string(st, string2_p, str2_size)
    IN  IF b.st.oom THEN [st |-> b.st, ret |-> 0, ovf |-> FALSE]
        ELSE [st |-> [b.st EXCEPT
                        !.heap[b.p].bytes = copied1.buf \o copied2.buf,
                        !.heap[b.p].size = new_size % Uint16Limit,
                        !.heap[b.p].length =
                            new_size % Uint16Limit,
                        !.strings[a.p] =
                            [refs |-> 1,
                             container |-> ECMA_STRING_CONTAINER_HEAP_CHUNKS,
                             hash |-> lit_utf8_string_hash_combine(st.strings[string1_p].hash,
                                                                   copied2.buf),
                             u |-> Word(b.p)]],
              ret |-> a.p, ovf |-> FALSE]

\* the allocating branch of ecma_concat_ecma_strings
ConcatHeapChunks(st, string1_p, string2_p) ==
    LET str1_size == ecma_string_get_size(st, string1_p)
        str2_size == ecma_string_get_size(st, string2_p)
        new_size == str1_size + str2_size
        a == ecma_alloc_string(st)
        data_size == new_size + HeaderSize
        b == mem_heap_alloc_block(a.st, data_size)
        copied1 == ecma_string_to_utf8_string(st, string1_p, str1_size)
        copied2 == ecma_string_to_utf8_string(st, string2_p, str2_size)
    IN  IF b.st.oom THEN [st |-> b.st, ret |-> 0, ovf |-> FALSE]
        ELSE [st |-> [b.st EXCEPT
                        !.heap[b.p].bytes = copied1.buf \o copied2.buf,
                        !.heap[b.p].size = new_size % Uint16Limit,
                        !.heap[b.p].length =
                            (ecma_string_get_length(st, string1_p)
                               + ecma_string_get_length(st, string2_p)) % Uint16Limit,
                        !.strings[a.p] =
                            [refs |-> 1,
                             container |-> ECMA_STRING_CONTAINER_HEAP_CHUNKS,
                             hash |-> lit_utf8_string_hash_combine(st.strings[string1_p].hash,
                                                                   copied2.buf),
                             u |-> Word(b.p)]],
              ret |-> a.p, ovf |-> FALSE]

\* a faulty ecma_concat_ecma_strings: an empty first operand is itself
\* returned
concat_returning_empty_first_operand(st, string1_p, string2_p, released) ==
    IF ecma_string_get_size(st, string1_p) = 0
    THEN ecma_copy_or_ref_ecma_string(st, string1_p, released)
    ELSE IF ecma_string_get_size(st, string2_p) = 0
    THEN ecma_copy_or_ref_ecma_string(st, string1_p, released)
    ELSE ConcatHeapChunks(st, string1_p, string2_p)

\* ecma_concat_ecma_strings
ecma_concat_ecma_strings(st, string1_p, string2_p, released) ==
    IF ecma_string_get_size(st, string1_p) = 0
    THEN ecma_copy_or_ref_ecma_string(st, string2_p, released)
    ELSE IF ecma_string_get_size(st, string2_p) = 0
    THEN ecma_copy_or_ref_ecma_string(st, string1_p, released)
    ELSE ConcatHeapChunks(st, string1_p, string2_p)

RECURSIVE SkipCodeUnits(_, _, _)
\* `while (n--) p += lit_get_unicode_char_size_by_utf8_first_byte (*p)`:
\* the index reached from index p after n code units
SkipCodeUnits(s, p, n) ==
    IF n = 0 THEN p
    ELSE SkipCodeUnits(s, p + lit_get_unicode_char_size_by_utf8_first_byte(s[p]), n - 1)

\* a faulty ecma_string_substr: the positions are taken as byte offsets
substr_counting_positions_in_bytes(st, string_p, start_pos, end_pos) ==
    IF start_pos < end_pos
    THEN LET buffer_size == ecma_string_get_size(st, string_p)
             st1 == ScratchAlloc(st, buffer_size)
             utf8_str_p == ecma_string_to_utf8_string(st, string_p, buffer_size).buf
             start_p == 1 + start_pos
             end_p == start_p + (end_pos - start_pos)
             r == ecma_new_ecma_string_from_utf8(st1, SubSeq(utf8_str_p, start_p, end_p - 1))
         IN  [st |-> ScratchFree(r.st, buffer_size), ret |-> r.ret]
    ELSE ecma_new_ecma_string_from_utf8(st, <<>>)

\* ecma_string_substr
ecma_string_substr(st, string_p, start_pos, end_pos) ==
    IF start_pos < end_pos
    THEN LET buffer_size == ecma_string_get_size(st, string_p)
             st1 == ScratchAlloc(st, buffer_size)
             utf8_str_p == ecma_string_to_utf8_string(st, string_p, buffer_size).buf
             start_p == SkipCodeUnits(utf8_str_p, 1, start_pos)
             end_p == SkipCodeUnits(utf8_str_p, start_p, end_pos - start_pos)
             r == ecma_new_ecma_string_from_utf8(st1, SubSeq(utf8_str_p, start_p, end_p - 1))
         IN  [st |-> ScratchFree(r.st, buffer_size), ret |-> r.ret]
    ELSE ecma_new_ecma_string_from_utf8(st, <<>>)

RECURSIVE TrimFront(_, _)
\* the "Trim front" loop: the index of the first code unit that is neither
\* white space nor a line terminator, Len(s) + 1 when there is none
TrimFront(s, current_p) ==
    IF current_p > Len(s) THEN Len(s) + 1
    ELSE IF ~IsWhiteSpaceOrLineTerminator(
                lit_read_code_unit_from_utf8(SubSeq(s, current_p, Len(s))))
    THEN current_p
    ELSE TrimFront(s, current_p + lit_get_unicode_char_size_by_utf8_first_byte(s[current_p]))

RECURSIVE TrimBack(_, _)
\* the "Trim back" loop: current_p is the index just after the kept text
TrimBack(s, current_p) ==
    IF current_p <= 1 THEN current_p
    ELSE LET prev == PrevCodeUnitStart(s, current_p)
         IN  IF ~IsWhiteSpaceOrLineTerminator(
                    lit_read_code_unit_from_utf8(SubSeq(s, prev, Len(s))))
             THEN current_p
             ELSE TrimBack(s, prev)

\* a faulty ecma_string_trim: the "Trim back" loop is left out
trim_front_only(st, string_p) ==
    LET buffer_size == ecma_string_get_size(st, string_p)
    IN  IF buffer_size > 0
        THEN LET st1 == ScratchAlloc(st, buffer_size)
                 utf8_str_p == ecma_string_to_utf8_string(st, string_p, buffer_size).buf
                 nonws_start_p == TrimFront(utf8_str_p, 1)
                 current_p == buffer_size + 1
                 r == IF current_p > nonws_start_p
                      THEN ecma_new_ecma_string_from_utf8(
                               st1, SubSeq(utf8_str_p, nonws_start_p, current_p - 1))
                      ELSE ecma_get_magic_string(st1, LIT_MAGIC_STRING__EMPTY)
             IN  [st |-> ScratchFree(r.st, buffer_size), ret |-> r.ret]
        ELSE ecma_get_magic_string(st, LIT_MAGIC_STRING__EMPTY)

\* ecma_string_trim
ecma_string_trim(st, string_p) ==
    LET buffer_size == ecma_string_get_size(st, string_p)
    IN  IF buffer_size > 0
        THEN LET st1 == ScratchAlloc(st, buffer_size)
                 utf8_str_p == ecma_string_to_utf8_string(st, string_p, buffer_size).buf
                 nonws_start_p == TrimFront(utf8_str_p, 1)
                 current_p == TrimBack(utf8_str_p, buffer_size + 1)
                 r == IF current_p > nonws_start_p
                      THEN ecma_new_ecma_string_from_utf8(
                               st1, SubSeq(utf8_str_p, nonws_start_p, current_p - 1))
                      ELSE ecma_get_magic_string(st1, LIT_MAGIC_STRING__EMPTY)
             IN  [st |-> ScratchFree(r.st, buffer_size), ret |-> r.ret]
        ELSE ecma_get_magic_string(st, LIT_MAGIC_STRING__EMPTY)

(***************************************************************************)
(* Read-only operations: conversion to a number, comparison, array index,  *)
(* magic recognition.  Those that allocate return [st |-> the state        *)
(* after, ret |-> the result].                                             *)
(***************************************************************************)
\* ECMA_MAX_CHARS_IN_STRINGIFIED_NUMBER (ecma-globals)
ECMA_MAX_CHARS_IN_STRINGIFIED_NUMBER == 64

\* LIT_MAGIC_STRING_LENGTH_LIMIT: the length of the longest magic string
LIT_MAGIC_STRING_LENGTH_LIMIT == 8

\* ECMA_MAX_VALUE_OF_VALID_ARRAY_INDEX: 2^32 - 1, never an array index
ECMA_MAX_VALUE_OF_VALID_ARRAY_INDEX == UINT32_MAX

IsDigits(s) == Len(s) > 0 /\ \A i \in 1..Len(s) : s[i] >= 48 /\ s[i] <= 57

RECURSIVE DecimalValue(_)
\* the wide natural a sequence of decimal digits denotes
DecimalValue(s) ==
    IF s = <<>> THEN WZero
    ELSE LET v == DecimalValue(SubSeq(s, 1, Len(s) - 1))
             lo == v[2] * 10 + (s[Len(s)] - 48)
         IN  W(v[1] * 10 + lo \div WBase, lo % WBase)

RECURSIVE StripWhiteSpace(_)
\* the text without its leading and trailing white space
StripWhiteSpace(s) ==
    IF s # <<>> /\ s[1] \in {9, 10, 11, 12, 13, 32}
    THEN StripWhiteSpace(Tail(s))
    ELSE IF s # <<>> /\ s[Len(s)] \in {9, 10, 11, 12, 13, 32}
    THEN StripWhiteSpace(SubSeq(s, 1, Len(s) - 1))
    ELSE s

\* ecma_utf8_string_to_number: ToNumber applied to a string, ECMA-262 v5,
\* 9.3.1, for decimal literals without exponent with at most the fraction
\* .5, for Infinity, and for text that is no numeric literal
ecma_utf8_string_to_number(str) ==
    LET t == StripWhiteSpace(str)
        neg == t # <<>> /\ t[1] = 45
        body == IF t # <<>> /\ t[1] \in {43, 45} THEN Tail(t) ELSE t
        n == Len(body)
    IN  IF t = <<>> THEN ECMA_NUMBER_ZERO
        ELSE IF IsDigits(body) THEN NumFin(neg, DecimalValue(body), FALSE)
        ELSE IF n > 2 /\ IsDigits(SubSeq(body, 1, n - 2)) /\ SubSeq(body, n - 1, n) = <<46, 53>>
        THEN NumFin(neg, DecimalValue(SubSeq(body, 1, n - 2)), TRUE)
        ELSE IF body = <<73, 110, 102, 105, 110, 105, 116, 121>> THEN NumInf(neg)
        ELSE NumNaN

\* a local variable: the value x under the name the body F gives it
Bind(x, F(_)) == F(x)

\* ecma_string_to_number
ecma_string_to_number(st, str_p) ==
    LET s == st.strings[str_p]
    IN  CASE s.container = ECMA_STRING_CONTAINER_UINT32_IN_DESC ->
               [st |-> st, ret |-> ecma_uint32_to_number(s.u)]
          [] s.container = ECMA_STRING_CONTAINER_HEAP_NUMBER ->
               [st |-> st, ret |-> HeapNumber(st, str_p)]
          [] OTHER ->
    Bind(ecma_string_get_size(st, str_p), LAMBDA string_size :
        IF string_size = 0 THEN [st |-> st, ret |-> ECMA_NUMBER_ZERO]
        ELSE
    Bind(ScratchAlloc(st, string_size), LAMBDA st1 :
    Bind(ecma_string_to_utf8_string(st, str_p, string_size), LAMBDA copied :
        [st |-> ScratchFree(st1, string_size),
         ret |-> ecma_utf8_string_to_number(copied.buf)])))

\* !strncmp (s1, s2, n): the bytes are compared up to the first zero byte,
\* and over at most n bytes
StrncmpEqual(s1, s2, n) ==
    \A i \in 1..n : (\A j \in 1..(i - 1) : s1[j] # 0) => s1[i] = s2[i]

\* the bytes ecma_compare_ecma_strings_longpath compares for one operand,
\* and whether they were materialized into a temporary heap block
LongpathOperand(st, string_p, strings_size) ==
    LET s == st.strings[string_p]
    IN  CASE s.container = ECMA_STRING_CONTAINER_HEAP_CHUNKS ->
               [bytes |-> HeapHeader(st, string_p).bytes, on_heap |-> FALSE]
          [] s.container = ECMA_STRING_CONTAINER_LIT_TABLE ->
               [bytes |-> lit_charset_literal_get_charset(lit_cpointer_decompress(PtrOf(s.u))),
                on_heap |-> FALSE]
          [] OTHER ->
               [bytes |-> ecma_string_to_utf8_string(st, string_p, strings_size).buf,
                on_heap |-> TRUE]

\* ecma_compare_ecma_strings_longpath
ecma_compare_ecma_strings_longpath(st, string1_p, string2_p) ==
    LET s1 == st.strings[string1_p]
        s2 == st.strings[string2_p]
    IN  IF /\ s1.container = s2.container
           /\ s1.container \in {ECMA_STRING_CONTAINER_LIT_TABLE,
                                ECMA_STRING_CONTAINER_MAGIC_STRING,
                                ECMA_STRING_CONTAINER_MAGIC_STRING_EX,
                                ECMA_STRING_CONTAINER_UINT32_IN_DESC}
        THEN [st |-> st, ret |-> FALSE]
        ELSE
    Bind(ecma_string_get_size(st, string1_p), LAMBDA string1_size :
    Bind(ecma_string_get_size(st, string2_p), LAMBDA string2_size :
    Bind(string1_size, LAMBDA strings_size :
        IF string1_size # string2_size THEN [st |-> st, ret |-> FALSE]
        ELSE IF strings_size = 0 THEN [st |-> st, ret |-> TRUE]
        ELSE IF s1.container = s2.container
        THEN IF s1.container = ECMA_STRING_CONTAINER_HEAP_NUMBER
             THEN LET num1 == HeapNumber(st, string1_p)
                      num2 == HeapNumber(st, string2_p)
                  IN  [st |-> st,
                       ret |-> \/ ecma_number_is_nan(num1) /\ ecma_number_is_nan(num2)
                               \/ NumberEq(num1, num2)]
             ELSE LET data1_p == HeapHeader(st, string1_p)
                      data2_p == HeapHeader(st, string2_p)
                  IN  [st |-> st,
                       ret |-> /\ data1_p.length = data2_p.length
                               /\ StrncmpEqual(data1_p.bytes, data2_p.bytes, strings_size)]
        ELSE
    Bind(LongpathOperand(st, string1_p, strings_size), LAMBDA o1 :
    Bind(IF o1.on_heap THEN ScratchAlloc(st, strings_size) ELSE st, LAMBDA st1 :
    Bind(LongpathOperand(st, string2_p, strings_size), LAMBDA o2 :
    Bind(IF o2.on_heap THEN ScratchAlloc(st1, strings_size) ELSE st1, LAMBDA st2 :
    Bind(IF o1.on_heap THEN ScratchFree(st2, strings_size) ELSE st2, LAMBDA st3 :
        [st |-> IF o2.on_heap THEN ScratchFree(st3, strings_size) ELSE st3,
         ret |-> StrncmpEqual(o1.bytes, o2.bytes, strings_size)]))))))))

\* ecma_compare_ecma_strings
ecma_compare_ecma_strings(st, string1_p, string2_p) ==
    LET s1 == st.strings[string1_p]
        s2 == st.strings[string2_p]
        is_equal_hashes == s1.hash = s2.hash
        is_equal_containers == s1.container = s2.container
        is_equal_fields == s1.u = s2.u
    IN  IF ~is_equal_hashes THEN [st |-> st, ret |-> FALSE]
        ELSE IF is_equal_containers /\ is_equal_fields THEN [st |-> st, ret |-> TRUE]
        ELSE ecma_compare_ecma_strings_longpath(st, string1_p, string2_p)

\* lit_compare_utf8_strings_relational: the first text is a proper prefix
\* of the second, or is less at the first byte where they differ
lit_compare_utf8_strings_relational(s1, s2) ==
    \E i \in 1..Len(s2) :
        /\ \A j \in 1..(i - 1) : j <= Len(s1) /\ s1[j] = s2[j]
        /\ i > Len(s1) \/ s1[i] < s2[i]

\* the bytes ecma_compare_ecma_strings_relational compares for one operand:
\* taken in place, or materialized into the buffer of
\* ECMA_MAX_CHARS_IN_STRINGIFIED_NUMBER bytes, or into a heap block
RelationalOperand(st, string_p) ==
    LET s == st.strings[string_p]
    IN  CASE s.container = ECMA_STRING_CONTAINER_HEAP_CHUNKS ->
               [st |-> st, on_heap |-> FALSE, size |-> HeapHeader(st, string_p).size,
                bytes |-> SubSeq(HeapHeader(st, string_p).bytes, 1, HeapHeader(st, string_p).size)]
          [] s.container = ECMA_STRING_CONTAINER_LIT_TABLE ->
               [st |-> st, on_heap |-> FALSE,
                size |-> lit_charset_literal_get_size(lit_cpointer_decompress(PtrOf(s.u))),
                bytes |-> lit_charset_literal_get_charset(lit_cpointer_decompress(PtrOf(s.u)))]
          [] OTHER ->
    Bind(ecma_string_to_utf8_string(st, string_p, ECMA_MAX_CHARS_IN_STRINGIFIED_NUMBER),
         LAMBDA req :
        IF req.ret < 0
        THEN Bind(ecma_string_to_utf8_string(st, string_p, 0 - req.ret), LAMBDA copied :
                 [st |-> ScratchAlloc(st, 0 - req.ret), on_heap |-> TRUE,
                  size |-> copied.ret, bytes |-> copied.buf])
        ELSE [st |-> st, on_heap |-> FALSE, size |-> req.ret, bytes |-> req.buf])

\* ecma_compare_ecma_strings_relational
ecma_compare_ecma_strings_relational(st, string1_p, string2_p) ==
    Bind(ecma_compare_ecma_strings(st, string1_p, string2_p), LAMBDA e :
        IF e.ret THEN [st |-> e.st, ret |-> FALSE]
        ELSE
    Bind(RelationalOperand(e.st, string1_p), LAMBDA o1 :
    Bind(RelationalOperand(o1.st, string2_p), LAMBDA o2 :
    Bind(IF o1.on_heap THEN ScratchFree(o2.st, o1.size) ELSE o2.st, LAMBDA st1 :
        [st |-> IF o2.on_heap THEN ScratchFree(st1, o2.size) ELSE st1,
         ret |-> lit_compare_utf8_strings_relational(o1.bytes, o2.bytes)]))))

\* a faulty ecma_string_get_array_index: the slow path accepts 4294967295
get_array_index_accepting_max_value(st, str_p) ==
    LET s == st.strings[str_p]
    IN  IF s.container = ECMA_STRING_CONTAINER_UINT32_IN_DESC
        THEN [st |-> st, out |-> s.u,
              ret |-> s.u # ECMA_MAX_VALUE_OF_VALID_ARRAY_INDEX]
        ELSE
    Bind(ecma_string_to_number(st, str_p), LAMBDA num :
    Bind(ecma_number_to_uint32(num.ret), LAMBDA out :
    Bind(ecma_new_ecma_string_from_uint32(num.st, out), LAMBDA t :
        IF t.st.oom THEN [st |-> t.st, out |-> out, ret |-> FALSE]
        ELSE
    Bind(ecma_compare_ecma_strings(t.st, str_p, t.ret), LAMBDA c :
        [st |-> ecma_deref_ecma_string(c.st, t.ret), out |-> out,
         ret |-> c.ret]))))

\* a faulty ecma_string_get_array_index: the temporary descriptor is not
\* released
get_array_index_keeping_descriptor(st, str_p) ==
    LET s == st.strings[str_p]
    IN  IF s.container = ECMA_STRING_CONTAINER_UINT32_IN_DESC
        THEN [st |-> st, out |-> s.u,
              ret |-> s.u # ECMA_MAX_VALUE_OF_VALID_ARRAY_INDEX]
        ELSE
    Bind(ecma_string_to_number(st, str_p), LAMBDA num :
    Bind(ecma_number_to_uint32(num.ret), LAMBDA out :
    Bind(ecma_new_ecma_string_from_uint32(num.st, out), LAMBDA t :
        IF t.st.oom THEN [st |-> t.st, out |-> out, ret |-> FALSE]
        ELSE
    Bind(ecma_compare_ecma_strings(t.st, str_p, t.ret), LAMBDA c :
        [st |-> c.st, out |-> out,
         ret |-> c.ret /\ out # ECMA_MAX_VALUE_OF_VALID_ARRAY_INDEX]))))

\* ecma_string_get_array_index: out is *index_p
ecma_string_get_array_index(st, str_p) ==
    LET s == st.strings[str_p]
    IN  IF s.container = ECMA_STRING_CONTAINER_UINT32_IN_DESC
        THEN [st |-> st, out |-> s.u,
              ret |-> s.u # ECMA_MAX_VALUE_OF_VALID_ARRAY_INDEX]
        ELSE
    Bind(ecma_string_to_number(st, str_p), LAMBDA num :
    Bind(ecma_number_to_uint32(num.ret), LAMBDA out :
    Bind(ecma_new_ecma_string_from_uint32(num.st, out), LAMBDA t :
        IF t.st.oom THEN [st |-> t.st, out |-> out, ret |-> FALSE]
        ELSE
    Bind(ecma_compare_ecma_strings(t.st, str_p, t.ret), LAMBDA c :
        [st |-> ecma_deref_ecma_string(c.st, t.ret), out |-> out,
         ret |-> c.ret /\ out # ECMA_MAX_VALUE_OF_VALID_ARRAY_INDEX]))))

\* ecma_is_string_magic_longpath: `copied` is what materializing into the
\* buffer of LIT_MAGIC_STRING_LENGTH_LIMIT bytes returned
ecma_is_string_magic_longpath(st, string_p) ==
    LET copied == ecma_string_to_utf8_string(st, string_p, LIT_MAGIC_STRING_LENGTH_LIMIT)
        id == lit_is_utf8_string_magic(copied.buf)
    IN  [copied |-> copied.ret, ret |-> id < LIT_MAGIC_STRING__COUNT, id |-> id]

\* ecma_is_string_magic: ret is the returned bool, id is *out_id_p, with
\* LIT_MAGIC_STRING__COUNT for "not written".  The long path runs inside
\* JERRY_ASSERT, that is in builds with assertions (debug) only; a failed
\* assertion ends the program.
ecma_is_string_magic(st, string_p, debug) ==
    LET s == st.strings[string_p]
        l == ecma_is_string_magic_longpath(st, string_p)
    IN  IF s.container = ECMA_STRING_CONTAINER_MAGIC_STRING
        THEN [st |-> st, ret |-> TRUE, id |-> PtrOf(s.u)]
        ELSE IF debug /\ ecma_string_get_length(st, string_p) <= LIT_MAGIC_STRING_LENGTH_LIMIT
        THEN IF l.copied <= 0
             THEN [st |-> Fault(st, "assertion"), ret |-> FALSE, id |-> LIT_MAGIC_STRING__COUNT]
             ELSE IF l.ret
             THEN [st |-> Fault(st, "assertion"), ret |-> FALSE, id |-> l.id]
             ELSE [st |-> st, ret |-> FALSE, id |-> LIT_MAGIC_STRING__COUNT]
        ELSE [st |-> st, ret |-> FALSE, id |-> LIT_MAGIC_STRING__COUNT]

\* ecma_is_ex_string_magic_longpath: `copied` is what materializing into
\* the buffer of LIT_MAGIC_STRING_LENGTH_LIMIT bytes returned
ecma_is_ex_string_magic_longpath(st, string_p) ==
    LET copied == ecma_string_to_utf8_string(st, string_p, LIT_MAGIC_STRING_LENGTH_LIMIT)
        id == lit_is_ex_utf8_string_magic(copied.buf)
    IN  [copied |-> copied.ret, ret |-> id < lit_get_magic_string_ex_count, id |-> id]

\* ecma_is_ex_string_magic: ret is the returned bool, id is *out_id_p, with
\* lit_get_magic_string_ex_count for "not written".  The long path runs
\* inside JERRY_ASSERT, that is in builds with assertions (debug) only; a
\* failed assertion ends the program.
ecma_is_ex_string_magic(st, string_p, debug) ==
    LET s == st.strings[string_p]
        l == ecma_is_ex_string_magic_longpath(st, string_p)
    IN  IF s.container = ECMA_STRING_CONTAINER_MAGIC_STRING_EX
        THEN [st |-> st, ret |-> TRUE, id |-> PtrOf(s.u)]
        ELSE IF debug /\ ecma_string_get_length(st, string_p) <= LIT_MAGIC_STRING_LENGTH_LIMIT
        THEN IF l.copied <= 0
             THEN [st |-> Fault(st, "assertion"), ret |-> FALSE,
                   id |-> lit_get_magic_string_ex_count]
             ELSE IF l.ret
             THEN [st |-> Fault(st, "assertion"), ret |-> FALSE, id |-> l.id]
             ELSE [st |-> st, ret |-> FALSE, id |-> lit_get_magic_string_ex_count]
        ELSE [st |-> st, ret |-> FALSE, id |-> lit_get_magic_string_ex_count]

\* lit_utf8_string_code_unit_at: the code unit of index code_unit_offset
lit_utf8_string_code_unit_at(s, code_unit_offset) ==
    Bind(SkipCodeUnits(s, 1, code_unit_offset), LAMBDA p :
        lit_read_code_unit_from_utf8(SubSeq(s, p, Len(s))))

\* ecma_string_get_char_at_pos, for index < length; the text is materialized
\* into a local array of buffer_size bytes
ecma_string_get_char_at_pos(st, string_p, index) ==
    Bind(ecma_string_get_size(st, string_p), LAMBDA buffer_size :
    Bind(ScratchAlloc(st, buffer_size), LAMBDA st1 :
    Bind(ecma_string_to_utf8_string(st, string_p, buffer_size), LAMBDA sz :
        [st |-> ScratchFree(st1, buffer_size),
         ret |-> lit_utf8_string_code_unit_at(sz.buf, index)])))

\* ecma_string_get_byte_at_pos, for index < size
ecma_string_get_byte_at_pos(st, string_p, index) ==
    Bind(ecma_string_get_size(st, string_p), LAMBDA buffer_size :
    Bind(ScratchAlloc(st, buffer_size), LAMBDA st1 :
    Bind(ecma_string_to_utf8_string(st, string_p, buffer_size), LAMBDA sz :
        [st |-> ScratchFree(st1, buffer_size),
         ret |-> sz.buf[index + 1]])))

\* ecma_string_hash
ecma_string_hash(st, string_p) == st.strings[string_p].hash

(***************************************************************************)
(* Operations as actions.  `last` records the operation performed: its     *)
(* name, descriptor operands a and b, input value, the descriptor          *)
(* returned, whether an increment of refs wrapped, and the calls made to   *)
(* the allocators, the lookup cache and the GC, in order.                  *)
(***************************************************************************)
Op(op, a, b, in, ret, ovf) ==
    [op |-> op, a |-> a, b |-> b, in |-> in, ret |-> ret, ovf |-> ovf, calls |-> <<>>]

\* the operation ran to completion on state st
Commit(st, rec) ==
    /\ ~st.oom
    /\ strings' = st.strings
    /\ heap' = st.heap
    /\ numbers' = st.numbers
    /\ fault' = st.fault
    /\ last' = [rec EXCEPT !.calls = st.calls]

Init ==
    /\ strings = [p \in StringPtrs |-> NoString]
    /\ heap = [p \in BlockPtrs |-> NoBlock]
    /\ numbers = [p \in NumberPtrs |-> NoNumber]
    /\ fault = "none"
    /\ last = Op("init", 0, 0, 0, 0, FALSE)

NewFromUtf8(string_p) ==
    /\ fault = "none"
    /\ lit_is_cesu8_string_valid(string_p)
    /\ LET r == ecma_new_ecma_string_from_utf8(Cur, string_p)
       IN  Commit(r.st, Op("from_utf8", 0, 0, string_p, r.ret, FALSE))

NewFromCodeUnit(code_unit) ==
    /\ fault = "none"
    /\ LET r == ecma_new_ecma_string_from_code_unit(Cur, code_unit)
       IN  Commit(r.st, Op("from_code_unit", 0, 0, code_unit, r.ret, FALSE))

NewFromUint32(uint32_number) ==
    /\ fault = "none"
    /\ LET r == ecma_new_ecma_string_from_uint32(Cur, uint32_number)
       IN  Commit(r.st, Op("from_uint32", 0, 0, uint32_number, r.ret, FALSE))

NewFromNumber(num) ==
    /\ fault = "none"
    /\ LET r == ecma_new_ecma_string_from_number(Cur, num)
       IN  Commit(r.st, Op("from_number", 0, 0, num, r.ret, FALSE))

NewFromLitCp(lit_cp) ==
    /\ fault = "none"
    /\ LET r == ecma_new_ecma_string_from_lit_cp(Cur, lit_cp)
       IN  Commit(r.st, Op("from_lit_cp", 0, 0, lit_cp, r.ret, FALSE))

NewFromMagicStringId(id) ==
    /\ fault = "none"
    /\ id < LIT_MAGIC_STRING__COUNT
    /\ LET r == ecma_new_ecma_string_from_magic_string_id(Cur, id)
       IN  Commit(r.st, Op("from_magic_string_id", 0, 0, id, r.ret, FALSE))

NewFromMagicStringExId(id) ==
    /\ fault = "none"
    /\ id < lit_get_magic_string_ex_count
    /\ LET r == ecma_new_ecma_string_from_magic_string_ex_id(Cur, id)
       IN  Commit(r.st, Op("from_magic_string_ex_id", 0, 0, id, r.ret, FALSE))

\* ecma_copy_or_ref_ecma_string on a descriptor someone holds a reference to;
\* the GC pass of an overflowing acquire releases `released` references
\* held by unreachable objects, never the caller's own
Acquire(d, released) ==
    /\ fault = "none"
    /\ IsLive(strings, d)
    /\ released < strings[d].refs
    /\ released = 0 \/ strings[d].refs = MaxRefs
    /\ LET r == ecma_copy_or_ref_ecma_string(Cur, d, released)
       IN  Commit(r.st, Op("acquire", d, 0, released, r.ret, r.ovf))

\* ecma_deref_ecma_string by a holder of a reference
Release(d) ==
    /\ fault = "none"
    /\ IsLive(strings, d)
    /\ Commit(ecma_deref_ecma_string(Cur, d), Op("release", d, 0, 0, 0, FALSE))

Concat(a, b, released) ==
    /\ fault = "none"
    /\ IsLive(strings, a) /\ ~IsDangling(Cur, a)
    /\ IsLive(strings, b) /\ ~IsDangling(Cur, b)
    /\ LET target == IF ecma_string_get_size(Cur, a) = 0 THEN b ELSE a
       IN  /\ released < strings[target].refs
           /\ released = 0 \/ (strings[target].refs = MaxRefs
                               /\ (ecma_string_get_size(Cur, a) = 0
                                   \/ ecma_string_get_size(Cur, b) = 0))
    /\ LET r == ecma_concat_ecma_strings(Cur, a, b, released)
       IN  Commit(r.st, Op("concat", a, b, released, r.ret, r.ovf))

Substr(d, start_pos, end_pos) ==
    /\ fault = "none"
    /\ IsLive(strings, d) /\ ~IsDangling(Cur, d)
    /\ start_pos <= ecma_string_get_length(Cur, d)
    /\ end_pos <= ecma_string_get_length(Cur, d)
    /\ LET r == ecma_string_substr(Cur, d, start_pos, end_pos)
       IN  Commit(r.st, Op("substr", d, 0, <<start_pos, end_pos>>, r.ret, FALSE))

Trim(d) ==
    /\ fault = "none"
    /\ IsLive(strings, d) /\ ~IsDangling(Cur, d)
    /\ LET r == ecma_string_trim(Cur, d)
       IN  Commit(r.st, Op("trim", d, 0, 0, r.ret, FALSE))

\* ecma_string_to_utf8_string into a buffer of buffer_size bytes
ToUtf8String(d, buffer_size) ==
    /\ fault = "none"
    /\ IsLive(strings, d) /\ ~IsDangling(Cur, d)
    /\ LET r == ecma_string_to_utf8_string(Cur, d, buffer_size)
       IN  Commit(Cur, Op("to_utf8_string", d, 0, buffer_size, r, FALSE))

\* ecma_compare_ecma_strings
CompareStrings(a, b) ==
    /\ fault = "none"
    /\ IsLive(strings, a) /\ ~IsDangling(Cur, a)
    /\ IsLive(strings, b) /\ ~IsDangling(Cur, b)
    /\ LET r == ecma_compare_ecma_strings(Cur, a, b)
       IN  Commit(r.st, Op("compare", a, b, 0, r.ret, FALSE))

\* ecma_compare_ecma_strings_relational
CompareRelational(a, b) ==
    /\ fault = "none"
    /\ IsLive(strings, a) /\ ~IsDangling(Cur, a)
    /\ IsLive(strings, b) /\ ~IsDangling(Cur, b)
    /\ LET r == ecma_compare_ecma_strings_relational(Cur, a, b)
       IN  Commit(r.st, Op("compare_relational", a, b, 0, r.ret, FALSE))

\* ecma_string_get_array_index
GetArrayIndex(d) ==
    /\ fault = "none"
    /\ IsLive(strings, d) /\ ~IsDangling(Cur, d)
    /\ LET r == ecma_string_get_array_index(Cur, d)
       IN  Commit(r.st, Op("get_array_index", d, 0, 0, [ret |-> r.ret, out |-> r.out], FALSE))

\* ecma_is_string_magic, in a build with assertions (debug) or without
IsStringMagic(d, debug) ==
    /\ fault = "none"
    /\ IsLive(strings, d) /\ ~IsDangling(Cur, d)
    /\ LET r == ecma_is_string_magic(Cur, d, debug)
       IN  Commit(r.st, Op("is_string_magic", d, 0, debug, [ret |-> r.ret, id |-> r.id], FALSE))

\* ecma_is_ex_string_magic, in a build with assertions (debug) or without
IsExStringMagic(d, debug) ==
    /\ fault = "none"
    /\ IsLive(strings, d) /\ ~IsDangling(Cur, d)
    /\ LET r == ecma_is_ex_string_magic(Cur, d, debug)
       IN  Commit(r.st, Op("is_ex_string_magic", d, 0, debug, [ret |-> r.ret, id |-> r.id], FALSE))

\* ecma_string_to_number
ToNumber(d) ==
    /\ fault = "none"
    /\ IsLive(strings, d) /\ ~IsDangling(Cur, d)
    /\ LET r == ecma_string_to_number(Cur, d)
       IN  Commit(r.st, Op("to_number", d, 0, 0, r.ret, FALSE))

\* ecma_string_get_size
GetSize(d) ==
    /\ fault = "none"
    /\ IsLive(strings, d) /\ ~IsDangling(Cur, d)
    /\ Commit(Cur, Op("get_size", d, 0, 0, ecma_string_get_size(Cur, d), FALSE))

\* ecma_string_get_length
GetLength(d) ==
    /\ fault = "none"
    /\ IsLive(strings, d) /\ ~IsDangling(Cur, d)
    /\ Commit(Cur, Op("get_length", d, 0, 0, ecma_string_get_length(Cur, d), FALSE))

\* ecma_string_get_char_at_pos; index < length is the caller's duty
GetCharAtPos(d, index) ==
    /\ fault = "none"
    /\ IsLive(strings, d) /\ ~IsDangling(Cur, d)
    /\ index < ecma_string_get_length(Cur, d)
    /\ LET r == ecma_string_get_char_at_pos(Cur, d, index)
       IN  Commit(r.st, Op("get_char_at_pos", d, 0, index, r.ret, FALSE))

\* ecma_string_get_byte_at_pos; index < size is the caller's duty
GetByteAtPos(d, index) ==
    /\ fault = "none"
    /\ IsLive(strings, d) /\ ~IsDangling(Cur, d)
    /\ index < ecma_string_get_size(Cur, d)
    /\ LET r == ecma_string_get_byte_at_pos(Cur, d, index)
       IN  Commit(r.st, Op("get_byte_at_pos", d, 0, index, r.ret, FALSE))

\* ecma_string_hash
Hash(d) ==
    /\ fault = "none"
    /\ IsLive(strings, d)
    /\ Commit(Cur, Op("hash", d, 0, 0, ecma_string_hash(Cur, d), FALSE))

\* any operation that reads the payload of a descriptor whose block was
\* freed under it: the read is a use after free
UseAfterFree(d) ==
    /\ fault = "none"
    /\ IsLive(strings, d) /\ IsDangling(Cur, d)
    /\ Commit(Fault(Cur, "use_after_free"), Op("use_after_free", d, 0, 0, 0, FALSE))

(***************************************************************************)
(* Inputs.                                                                 *)
(***************************************************************************)
\* longest text a concatenation may produce in the model
MaxConcatSize == 2

\* number of live descriptors up to which the constructors run
MaxConstructed == 2

\* "ab"
LifeTexts == { <<97, 98>> }

\* 7
LifeUint32s == { WOfInt(7) }

\* -1
LifeNumbers == { NumFin(TRUE, WOfInt(1), FALSE) }

NumberOfLiveStrings == Cardinality({p \in StringPtrs : IsLive(strings, p)})

ConcatFits(a, b) ==
    /\ IsLive(strings, a) /\ ~IsDangling(Cur, a)
    /\ IsLive(strings, b) /\ ~IsDangling(Cur, b)
    /\ ecma_string_get_size(Cur, a) + ecma_string_get_size(Cur, b) <= MaxConcatSize

\* the constructors run while fewer than MaxConstructed descriptors are
\* live; the remaining pool entries take copies and concatenations
MayConstruct == NumberOfLiveStrings < MaxConstructed

\* the life cycle: constructors of every variant, acquire with and without
\* overflow, release, concatenation
Next ==
    \/ \E s \in LifeTexts : MayConstruct /\ NewFromUtf8(s)
    \/ \E n \in LifeUint32s : MayConstruct /\ NewFromUint32(n)
    \/ \E x \in LifeNumbers : MayConstruct /\ NewFromNumber(x)
    \/ MayConstruct /\ NewFromLitCp(1)
    \/ MayConstruct /\ NewFromMagicStringId(LIT_MAGIC_STRING__EMPTY)
    \/ MayConstruct /\ NewFromMagicStringExId(0)
    \/ \E d \in StringPtrs, released \in 0..(MaxRefs - 1) : Acquire(d, released)
    \/ \E d \in StringPtrs : Release(d)
    \/ \E a, b \in StringPtrs, released \in 0..(MaxRefs - 1) :
           ConcatFits(a, b) /\ Concat(a, b, released)
    \/ \E d \in StringPtrs : UseAfterFree(d)

Spec == Init /\ [][Next]_vars

(***************************************************************************)
(* A second specification with a wide choice of inputs: one or two         *)
(* descriptors are constructed, one operation is applied to them, and the  *)
(* descriptors are released again, last allocated first.                   *)
(***************************************************************************)
\* longest text a concatenation may produce under SpecWide
MaxWideConcatSize == 6

WideTexts ==
    { <<>>,                                   \* ""        (magic)
      <<78, 97, 78>>,                         \* "NaN"     (magic)
      <<108, 101, 110, 103, 116, 104>>,       \* "length"  (magic)
      <<120, 121>>,                           \* "xy"      (external magic)
      <<49, 46, 53>>,                         \* "1.5"     (external magic)
      <<97, 98>>,                             \* "ab"
      <<52, 50>>,                             \* "42"
      <<108, 101, 110, 103>>,                 \* "leng"
      <<116, 104>>,                           \* "th"
      <<120, 121, 122>>,                      \* "xyz"
      <<32, 32>>,                             \* "  "
      <<32, 120, 121, 10>>,                   \* " xy\n"
      <<226, 128, 168, 97, 194, 160>>,        \* U+2028 "a" U+00A0
      <<97, 195, 169, 98>>,                   \* "a" U+00E9 "b"
      <<97, 0, 98>> }                         \* "a" U+0000 "b"

\* "a", "E" (magic), U+00E9, U+2028
WideCodeUnits == {97, 69, 233, 8232}

\* 0, 42, 4294967295
WideUint32s == { WZero, WOfInt(42), UINT32_MAX }

\* +0, -0, 42, 4294967295, 4294967296, -1, 1.5, 2.5, NaN, +Infinity, -Infinity
WideNumbers ==
    { ECMA_NUMBER_ZERO,
      NumFin(TRUE, WZero, FALSE),
      NumFin(FALSE, WOfInt(42), FALSE),
      NumFin(FALSE, UINT32_MAX, FALSE),
      NumFin(FALSE, TwoPow32, FALSE),
      NumFin(TRUE, WOfInt(1), FALSE),
      NumFin(FALSE, WOfInt(1), TRUE),
      NumFin(FALSE, WOfInt(2), TRUE),
      NumNaN,
      NumInf(FALSE),
      NumInf(TRUE) }

ConstructorOps ==
    {"from_utf8", "from_code_unit", "from_uint32", "from_number", "from_lit_cp",
     "from_magic_string_id", "from_magic_string_ex_id"}

\* a constructor runs on an empty pool, or right after the first one
WideMayConstruct ==
    \/ NumberOfLiveStrings = 0
    \/ NumberOfLiveStrings = 1 /\ last.op \in ConstructorOps

\* concatenation, substring and trim run on freshly constructed descriptors
WideMayDerive == last.op \in ConstructorOps

WideConcatFits(a, b) ==
    /\ IsLive(strings, a)
    /\ IsLive(strings, b)
    /\ ecma_string_get_size(Cur, a) + ecma_string_get_size(Cur, b) <= MaxWideConcatSize

\* the live descriptor allocated last
IsLastAllocated(d) == IsLive(strings, d) /\ \A q \in StringPtrs : IsLive(strings, q) => q <= d

NextWide ==
    \/ \E s \in WideTexts : WideMayConstruct /\ NewFromUtf8(s)
    \/ \E c \in WideCodeUnits : WideMayConstruct /\ NewFromCodeUnit(c)
    \/ \E n \in WideUint32s : WideMayConstruct /\ NewFromUint32(n)
    \/ \E x \in WideNumbers : WideMayConstruct /\ NewFromNumber(x)
    \/ \E cp \in 1..Len(LitTable) : WideMayConstruct /\ NewFromLitCp(cp)
    \/ \E id \in 0..(LIT_MAGIC_STRING__COUNT - 1) : WideMayConstruct /\ NewFromMagicStringId(id)
    \/ \E id \in 0..(lit_get_magic_string_ex_count - 1) :
           WideMayConstruct /\ NewFromMagicStringExId(id)
    \/ \E a, b \in StringPtrs : WideMayDerive /\ WideConcatFits(a, b) /\ Concat(a, b, 0)
    \/ \E d \in StringPtrs, start_pos, end_pos \in 0..MaxWideConcatSize :
           WideMayDerive /\ Substr(d, start_pos, end_pos)
    \/ \E d \in StringPtrs : WideMayDerive /\ Trim(d)
    \/ \E d \in StringPtrs : IsLastAllocated(d) /\ Release(d)

SpecWide == Init /\ [][NextWide]_vars

(***************************************************************************)
(* A third specification for the read-only operations on one descriptor:   *)
(* a descriptor is constructed from a wide choice of inputs, then it is    *)
(* materialized into a buffer or tested for being an array index.          *)
(***************************************************************************)
\* largest buffer a descriptor is materialized into under SpecQuery
MaxBufferSize == 11

\* the wide texts, and decimal texts around the ends of the uint32 range
QueryTexts ==
    WideTexts \cup
    { <<48>>,                                           \* "0"
      <<55>>,                                           \* "7"
      <<48, 52, 50>>,                                   \* "042"
      <<226, 128, 168, 226, 128, 168, 226, 128, 168>>,  \* U+2028 three times
      <<32, 52, 50>>,                                   \* " 42"
      <<45, 49>>,                                       \* "-1"
      <<52, 50, 46, 53>>,                               \* "42.5"
      <<52, 50, 57, 52, 57, 54, 55, 50, 57, 52>>,       \* "4294967294"
      <<52, 50, 57, 52, 57, 54, 55, 50, 57, 53>>,       \* "4294967295"
      <<52, 50, 57, 52, 57, 54, 55, 50, 57, 54>>,       \* "4294967296"
      <<53, 48, 48, 48, 48, 48, 48, 48, 48, 48>> }      \* "5000000000"

\* 0, 9, 10, 42, 99999, 100000, 999999999, 1000000000, 4294967294, 4294967295
QueryUint32s ==
    { WZero, WOfInt(9), WOfInt(10), WOfInt(42), WOfInt(99999), WOfInt(100000),
      WOfInt(999999999), WOfInt(1000000000), W(42949, 67294), UINT32_MAX }

QueryMayConstruct == NumberOfLiveStrings = 0

QueryMayRead == last.op \in ConstructorOps

NextQuery ==
    \/ \E s \in QueryTexts : QueryMayConstruct /\ NewFromUtf8(s)
    \/ \E c \in WideCodeUnits : QueryMayConstruct /\ NewFromCodeUnit(c)
    \/ \E n \in QueryUint32s : QueryMayConstruct /\ NewFromUint32(n)
    \/ \E x \in WideNumbers : QueryMayConstruct /\ NewFromNumber(x)
    \/ \E cp \in 1..Len(LitTable) : QueryMayConstruct /\ NewFromLitCp(cp)
    \/ \E id \in 0..(LIT_MAGIC_STRING__COUNT - 1) : QueryMayConstruct /\ NewFromMagicStringId(id)
    \/ \E id \in 0..(lit_get_magic_string_ex_count - 1) :
           QueryMayConstruct /\ NewFromMagicStringExId(id)
    \/ \E d \in StringPtrs, buffer_size \in 0..MaxBufferSize :
           QueryMayRead /\ ToUtf8String(d, buffer_size)
    \/ \E d \in StringPtrs : QueryMayRead /\ GetArrayIndex(d)
    \/ \E d \in StringPtrs, debug \in BOOLEAN : QueryMayRead /\ IsStringMagic(d, debug)
    \/ \E d \in StringPtrs, debug \in BOOLEAN : QueryMayRead /\ IsExStringMagic(d, debug)

SpecQuery == Init /\ [][NextQuery]_vars

(***************************************************************************)
(* A fourth specification for the operations on two descriptors: up to     *)
(* MaxStrings descriptors of all six variants are constructed, two of them *)
(* may be concatenated, and then the descriptor built last is compared     *)
(* with the descriptors of the pool and tested for being magic.  The texts *)
(* include texts that start with U+0000 and have the same hash.            *)
(***************************************************************************)
CompareTexts ==
    { <<0, 195, 169>>,                        \* U+0000 U+00E9
      <<0, 107, 97>>,                         \* U+0000 "ka"
      <<0, 107, 98>>,                         \* U+0000 "kb"
      <<97, 98>>,                             \* "ab"
      <<52, 50>>,                             \* "42"
      <<108, 101, 110, 103>>,                 \* "leng"
      <<116, 104>> }                          \* "th"

\* charset "ab", charset U+0000 "ka"
CompareLitCps == {2, 5}

\* the operations that build the pool under SpecCompare
CompareBuildOps == ConstructorOps \cup {"concat"}

CompareMayConstruct ==
    /\ NumberOfLiveStrings < MaxStrings
    /\ last.op \in ConstructorOps \cup {"init"}

CompareMayConcat(a, b) ==
    /\ NumberOfLiveStrings = 2
    /\ last.op \in ConstructorOps
    /\ WideConcatFits(a, b)

CompareMayRead == last.op \in CompareBuildOps

NextCompare ==
    \/ \E s \in CompareTexts : CompareMayConstruct /\ NewFromUtf8(s)
    \/ \E cp \in CompareLitCps : CompareMayConstruct /\ NewFromLitCp(cp)
    \/ CompareMayConstruct /\ NewFromUint32(WOfInt(42))
    \/ CompareMayConstruct /\ NewFromNumber(NumFin(FALSE, WOfInt(2), TRUE))
    \/ CompareMayConstruct /\ NewFromMagicStringId(3)            \* "length"
    \/ CompareMayConstruct /\ NewFromMagicStringExId(0)
    \/ \E a, b \in StringPtrs : CompareMayConcat(a, b) /\ Concat(a, b, 0)
    \/ \E d \in StringPtrs : CompareMayRead /\ CompareStrings(last.ret, d)
    \/ \E d \in StringPtrs : CompareMayRead /\ CompareStrings(d, last.ret)
    \/ \E d \in StringPtrs : CompareMayRead /\ CompareRelational(last.ret, d)
    \/ \E d \in StringPtrs : CompareMayRead /\ CompareRelational(d, last.ret)
    \/ \E debug \in BOOLEAN : CompareMayRead /\ IsStringMagic(last.ret, debug)
    \/ \E debug \in BOOLEAN : CompareMayRead /\ IsExStringMagic(last.ret, debug)
    \/ \E buffer_size \in 0..MaxBufferSize : CompareMayRead /\ ToUtf8String(last.ret, buffer_size)
    \/ CompareMayRead /\ GetArrayIndex(last.ret)
    \/ CompareMayRead /\ ToNumber(last.ret)
    \/ CompareMayRead /\ GetSize(last.ret)
    \/ CompareMayRead /\ GetLength(last.ret)
    \/ CompareMayRead /\ Hash(last.ret)
    \/ \E index \in 0..MaxWideConcatSize : CompareMayRead /\ GetCharAtPos(last.ret, index)
    \/ \E index \in 0..MaxWideConcatSize : CompareMayRead /\ GetByteAtPos(last.ret, index)

SpecCompare == Init /\ [][NextCompare]_vars

(***************************************************************************)
(* Properties.                                                             *)
(***************************************************************************)
\* the state after a step, as the operators above take it
CurNext ==
    [strings |-> strings', heap |-> heap', numbers |-> numbers',
     calls |-> <<>>, fault |-> "none", oom |-> FALSE]

\* the indices of the calls to f among the calls of an operation
CallsTo(calls, f) == {i \in 1..Len(calls) : calls[i].f = f}

AllocatorCalls == {"ecma_alloc_string", "mem_heap_alloc_block", "ecma_alloc_number"}

NoLiveStrings == \A p \in StringPtrs : ~IsLive(strings, p)

\* C1: refcount conservation.  Once every descriptor reference handed out
\* by a constructor or by acquire has been released (no descriptor is live
\* any more), the numbers of live descriptors, live heap blocks and live
\* number cells are back at the baseline of the initial state, also when an
\* acquire took the overflow path.
C1_RefcountConservation ==
    NoLiveStrings =>
        /\ \A b \in BlockPtrs : ~heap[b].live
        /\ \A n \in NumberPtrs : ~numbers[n].live

\* C2: when acquire deep-copies a HEAP_CHUNKS descriptor, the copy's payload
\* pointer refers to the newly allocated block, a block different from the
\* original's with the same header and the same bytes, and the original
\* keeps pointing at its own block.
C2_DeepCopyPointsAtNewBlock ==
    [][(/\ last'.op = "acquire"
        /\ last'.ret # last'.a
        /\ strings[last'.a].container = ECMA_STRING_CONTAINER_HEAP_CHUNKS
        /\ fault' = "none")
       => LET old == PtrOf(strings[last'.a].u)
              new == PtrOf(strings'[last'.ret].u)
          IN  /\ new # old
              /\ new \in {last'.calls[i].p : i \in CallsTo(last'.calls, "mem_heap_alloc_block")}
              /\ heap'[new].live
              /\ heap'[new].size = heap[old].size
              /\ heap'[new].length = heap[old].length
              /\ heap'[new].bytes = heap[old].bytes
              /\ strings'[last'.a].u = strings[last'.a].u
              /\ heap'[old] = heap[old]]_vars

C4_OverflowReusesOriginal ==
    [][(/\ last'.op = "acquire"
        /\ strings[last'.a].refs = MaxRefs
        /\ last'.in >= 1)
       => LET d == last'.a
              r == MaxRefs - last'.in
          IN  /\ last'.ret = d
              /\ strings' = [strings EXCEPT ![d].refs = r + 1]
              /\ heap' = heap
              /\ numbers' = numbers
              /\ \A i \in 1..Len(last'.calls) : last'.calls[i].f \notin AllocatorCalls]_vars

C4_Witness ==
    /\ last.op = "acquire"
    /\ last.ovf
    /\ last.in >= 1
    /\ last.ret = last.a
    /\ strings[last.a].refs = (MaxRefs - last.in) + 1

\* C5: every descriptor that has not been returned to the pool has
\* 1 <= refs <= maximum, and a pool entry whose refs reached 0 has been
\* returned to the pool.
C5_RefsPositive ==
    \A p \in StringPtrs :
        IF IsLive(strings, p)
        THEN 1 <= strings[p].refs /\ strings[p].refs <= MaxRefs
        ELSE strings[p] = NoString

C5_Witness ==
    /\ last.op = "acquire"
    /\ last.ovf
    /\ IsLive(strings, last.a)
    /\ strings[last.a].refs = MaxRefs
    /\ \E p \in StringPtrs : ~IsLive(strings, p)

\* C6: release decrements refs by exactly 1; while the result is not zero
\* nothing is freed and the descriptor is otherwise unchanged; when it is
\* zero the owned payload is freed first (the block of HEAP_CHUNKS, the cell
\* of HEAP_NUMBER, nothing for the other variants) and the descriptor is
\* returned to its pool last.
C6_ReleaseOrder ==
    [][(last'.op = "release")
       => LET d == last'.a
              s == strings[d]
          IN  IF s.refs # 1
              THEN /\ strings' = [strings EXCEPT ![d].refs = s.refs - 1]
                   /\ heap' = heap
                   /\ numbers' = numbers
                   /\ last'.calls = <<>>
              ELSE /\ strings' = [strings EXCEPT ![d] = NoString]
                   /\ last'.calls =
                        CASE s.container = ECMA_STRING_CONTAINER_HEAP_CHUNKS ->
                               << [f |-> "mem_heap_free_block", p |-> PtrOf(s.u),
                                   n |-> heap[PtrOf(s.u)].size + HeaderSize],
                                  [f |-> "ecma_dealloc_string", p |-> d, n |-> 0] >>
                          [] s.container = ECMA_STRING_CONTAINER_HEAP_NUMBER ->
                               << [f |-> "ecma_dealloc_number", p |-> PtrOf(s.u), n |-> 0],
                                  [f |-> "ecma_dealloc_string", p |-> d, n |-> 0] >>
                          [] OTHER ->
                               << [f |-> "ecma_dealloc_string", p |-> d, n |-> 0] >>
                   /\ s.container = ECMA_STRING_CONTAINER_HEAP_CHUNKS
                        => \A b \in BlockPtrs : b # PtrOf(s.u) => heap'[b] = heap[b]
                   /\ s.container # ECMA_STRING_CONTAINER_HEAP_CHUNKS => heap' = heap
                   /\ s.container # ECMA_STRING_CONTAINER_HEAP_NUMBER => numbers' = numbers]_vars

C6_Witness ==
    /\ last.op = "release"
    /\ Len(last.calls) = 2
    /\ last.calls[1].f = "mem_heap_free_block"
    /\ last.calls[2].f = "ecma_dealloc_string"
    /\ ~heap[last.calls[1].p].live
    /\ ~IsLive(strings, last.a)
    /\ fault = "none"

\* the operation just performed ran an acquire whose increment wrapped refs
WrappingAcquire ==
    \/ /\ last'.op = "acquire"
       /\ strings[last'.a].refs = MaxRefs
    \/ /\ last'.op = "concat"
       /\ \/ /\ ecma_string_get_size(Cur, last'.a) = 0
             /\ strings[last'.b].refs = MaxRefs
          \/ /\ ecma_string_get_size(Cur, last'.a) # 0
             /\ ecma_string_get_size(Cur, last'.b) = 0
             /\ strings[last'.a].refs = MaxRefs

\* C7: cache invalidation and the GC run are each invoked exactly once,
\* cache invalidation first, during every acquire whose increment wraps
\* refs, and by no other operation.
C7_GcOncePerOverflow ==
    [][LET lc == CallsTo(last'.calls, "ecma_lcache_invalidate_all")
           gc == CallsTo(last'.calls, "ecma_gc_run")
       IN  IF WrappingAcquire
           THEN /\ Cardinality(lc) = 1
                /\ Cardinality(gc) = 1
                /\ \A i \in lc, j \in gc : i < j
           ELSE lc = {} /\ gc = {}]_vars

C7_Witness ==
    /\ last.op \in {"acquire", "concat"}
    /\ last.ovf
    /\ CallsTo(last.calls, "ecma_lcache_invalidate_all") = {1}
    /\ CallsTo(last.calls, "ecma_gc_run") = {2}

MagicIdsOf(B) ==
    {id \in 0..(LIT_MAGIC_STRING__COUNT - 1) : LitMagicStrings[id + 1] = B}

\* the ids of the extended magic entries equal to the bytes B
MagicExIdsOf(B) ==
    {id \in 0..(lit_get_magic_string_ex_count - 1) : LitMagicStringsEx[id + 1] = B}

\* the descriptor r is the canonical form of the bytes B
IsCanonicalFor(r, B) ==
    LET s == strings[r]
    IN  /\ IsLive(strings, r)
        /\ s.refs = 1
        /\ IF MagicIdsOf(B) # {}
           THEN /\ s.container = ECMA_STRING_CONTAINER_MAGIC_STRING
                /\ PtrOf(s.u) \in MagicIdsOf(B)
           ELSE IF MagicExIdsOf(B) # {}
           THEN /\ s.container = ECMA_STRING_CONTAINER_MAGIC_STRING_EX
                /\ PtrOf(s.u) \in MagicExIdsOf(B)
           ELSE /\ s.container = ECMA_STRING_CONTAINER_HEAP_CHUNKS
                /\ heap[PtrOf(s.u)].live
                /\ heap[PtrOf(s.u)].size = Len(B)
                /\ heap[PtrOf(s.u)].bytes = B

\* C9: magic canonicalization.  from-bytes(B) returns MAGIC with id m if B
\* is built-in magic entry m, otherwise MAGIC_EX with id e if B is extended
\* entry e, otherwise HEAP_CHUNKS holding B, always with refs = 1; the
\* results of from-code-unit, substring and trim are canonical for their
\* bytes in the same way.
C9_MagicCanonicalization ==
    /\ last.op = "from_utf8" => IsCanonicalFor(last.ret, last.in)
    /\ last.op = "from_code_unit" => IsCanonicalFor(last.ret, lit_code_unit_to_utf8(last.in))
    /\ last.op \in {"substr", "trim"} => IsCanonicalFor(last.ret, Materialize(Cur, last.ret))

C9_Witness ==
    /\ last.op \in {"substr", "trim"}
    /\ strings[last.ret].container = ECMA_STRING_CONTAINER_MAGIC_STRING_EX
    /\ strings[last.a].container = ECMA_STRING_CONTAINER_HEAP_CHUNKS
    /\ Materialize(Cur, last.ret) = LitMagicStringsEx[PtrOf(strings[last.ret].u) + 1]

\* the number x equals the number form of a 32-bit unsigned integer
RoundTripsThroughUint32(x) ==
    /\ x.k = "fin"
    /\ ~x.half
    /\ WLeq(x.w, UINT32_MAX)
    /\ x.neg => x.w = WZero

\* C10: numeric canonicalization.  from-number(x) returns UINT32_IN_DESC
\* holding n exactly when x equals the number form of the uint32 n;
\* otherwise MAGIC or MAGIC_EX if the decimal text of x is a magic or
\* extended magic entry, and otherwise HEAP_NUMBER whose cell holds x; no
\* HEAP_NUMBER descriptor holds a value that round-trips through uint32.
C10_NumericCanonicalization ==
    /\ last.op = "from_number" =>
         LET x == last.in
             s == strings[last.ret]
             text == ecma_number_to_utf8_string(x)
         IN  /\ s.refs = 1
             /\ IF RoundTripsThroughUint32(x)
                THEN /\ s.container = ECMA_STRING_CONTAINER_UINT32_IN_DESC
                     /\ s.u = x.w
                ELSE IF MagicIdsOf(text) # {}
                THEN /\ s.container = ECMA_STRING_CONTAINER_MAGIC_STRING
                     /\ PtrOf(s.u) \in MagicIdsOf(text)
                ELSE IF MagicExIdsOf(text) # {}
                THEN /\ s.container = ECMA_STRING_CONTAINER_MAGIC_STRING_EX
                     /\ PtrOf(s.u) \in MagicExIdsOf(text)
                ELSE /\ s.container = ECMA_STRING_CONTAINER_HEAP_NUMBER
                     /\ numbers[PtrOf(s.u)].live
                     /\ numbers[PtrOf(s.u)].num = x
    /\ \A d \in StringPtrs :
         (/\ IsLive(strings, d)
          /\ strings[d].container = ECMA_STRING_CONTAINER_HEAP_NUMBER
          /\ ~IsDangling(Cur, d))
            => ~RoundTripsThroughUint32(numbers[PtrOf(strings[d].u)].num)

C10_Witness ==
    /\ last.op = "from_number"
    /\ ~RoundTripsThroughUint32(last.in)
    /\ last.in.k = "fin"
    /\ ~last.in.neg
    /\ ~last.in.half
    /\ strings[last.ret].container = ECMA_STRING_CONTAINER_HEAP_NUMBER
    /\ numbers[PtrOf(strings[last.ret].u)].num = last.in

\* C11: round trip.  Materializing from-bytes(B) into a buffer of at least
\* |B| bytes writes exactly B and reports |B|, also for the empty B and for
\* B that is a magic entry; the materialized bytes of from-uint32(n) are
\* decimal digits that denote n.
C11_RoundTrip ==
    /\ last.op = "from_utf8" =>
         \A buffer_size \in Len(last.in)..MaxBufferSize :
             ecma_string_to_utf8_string(Cur, last.ret, buffer_size)
                 = [ret |-> Len(last.in), buf |-> last.in]
    /\ last.op = "from_uint32" =>
         /\ IsDigits(Materialize(Cur, last.ret))
         /\ DecimalValue(Materialize(Cur, last.ret)) = last.in

C11_Witness ==
    /\ last.op = "from_utf8"
    /\ last.in # <<>>
    /\ strings[last.ret].container = ECMA_STRING_CONTAINER_MAGIC_STRING
    /\ Materialize(Cur, last.ret) = last.in

\* C12: materialization into a buffer of n bytes returns the negation of
\* the byte-size and writes nothing if the byte-size exceeds n or n is 0;
\* otherwise it writes exactly byte-size bytes and returns byte-size; the
\* descriptor pool, the heap and the number pool are unchanged either way.
C12_MaterializeContract ==
    [][(last'.op = "to_utf8_string")
       => LET size == ecma_string_get_size(Cur, last'.a)
              n == last'.in
              r == last'.ret
          IN  /\ IF size > n \/ n = 0
                 THEN r.ret = 0 - size /\ r.buf = <<>>
                 ELSE r.ret = size /\ Len(r.buf) = size
              /\ strings' = strings
              /\ heap' = heap
              /\ numbers' = numbers]_vars

C12_Witness ==
    /\ last.op = "to_utf8_string"
    /\ last.in > 0
    /\ last.in < ecma_string_get_size(Cur, last.a)
    /\ last.ret.ret = 0 - ecma_string_get_size(Cur, last.a)
    /\ last.ret.buf = <<>>

\* the live descriptors
LiveStrings == {p \in StringPtrs : IsLive(strings, p)}

\* what ecma_compare_ecma_strings returns for two descriptors of the pool
Equal(a, b) == ecma_compare_ecma_strings(Cur, a, b).ret

\* what ecma_compare_ecma_strings_relational returns for them
Less(a, b) == ecma_compare_ecma_strings_relational(Cur, a, b).ret

\* C13: ecma_compare_ecma_strings is an equivalence relation on the
\* descriptors of the pool, of all six variants: reflexive, symmetric and
\* transitive; two descriptors it calls equal have equal hash fields.
C13_CompareIsEquivalence ==
    last.op \in CompareBuildOps =>
        \A a, b, c \in LiveStrings :
            /\ Equal(a, a)
            /\ Equal(a, b) => Equal(b, a)
            /\ Equal(a, b) => strings[a].hash = strings[b].hash
            /\ Equal(a, b) /\ Equal(b, c) => Equal(a, c)

\* C14: for all descriptors a, b of the pool the relational comparison is
\* false whenever the equality comparison is true; less-than is
\* antisymmetric and transitive; a and b are equal exactly when neither is
\* less than the other.
C14_RelationalIsStrictOrder ==
    last.op \in CompareBuildOps =>
        \A a, b, c \in LiveStrings :
            /\ Equal(a, b) => ~Less(a, b)
            /\ ~(Less(a, b) /\ Less(b, a))
            /\ Less(a, b) /\ Less(b, c) => Less(a, c)
            /\ Equal(a, b) <=> (~Less(a, b) /\ ~Less(b, a))

\* C15: the concatenation of two descriptors a and b of non-zero byte-size
\* is a new HEAP_CHUNKS descriptor with refs = 1; its bytes are the bytes of
\* a followed by the bytes of b, its byte-size and its code-unit-length are
\* the sums of theirs; a and b (refs, hash, payload) are unchanged.
C15_ConcatNonEmpty ==
    [][(/\ last'.op = "concat"
        /\ ecma_string_get_size(Cur, last'.a) > 0
        /\ ecma_string_get_size(Cur, last'.b) > 0)
       => LET a == last'.a
              b == last'.b
              r == last'.ret
          IN  /\ ~IsLive(strings, r)
              /\ strings'[r].container = ECMA_STRING_CONTAINER_HEAP_CHUNKS
              /\ strings'[r].refs = 1
              /\ Materialize(CurNext, r) = Materialize(Cur, a) \o Materialize(Cur, b)
              /\ ecma_string_get_size(CurNext, r)
                    = ecma_string_get_size(Cur, a) + ecma_string_get_size(Cur, b)
              /\ ecma_string_get_length(CurNext, r)
                    = ecma_string_get_length(Cur, a) + ecma_string_get_length(Cur, b)
              /\ \A p \in StringPtrs : p # r => strings'[p] = strings[p]
              /\ \A p \in BlockPtrs : heap[p] # NoBlock => heap'[p] = heap[p]
              /\ numbers' = numbers
              /\ Materialize(CurNext, a) = Materialize(Cur, a)
              /\ Materialize(CurNext, b) = Materialize(Cur, b)]_vars

C15_Witness ==
    /\ last.op = "concat"
    /\ last.a # last.b
    /\ last.ret \notin {last.a, last.b}
    /\ strings[last.a].container = ECMA_STRING_CONTAINER_HEAP_CHUNKS
    /\ strings[last.b].container = ECMA_STRING_CONTAINER_UINT32_IN_DESC
    /\ ecma_string_get_length(Cur, last.a) < ecma_string_get_size(Cur, last.a)
    /\ Materialize(Cur, last.ret) = Materialize(Cur, last.a) \o Materialize(Cur, last.b)

\* the step is a concatenation with an operand of byte-size 0
ConcatWithEmptyOperand ==
    /\ last'.op = "concat"
    /\ \/ ecma_string_get_size(Cur, last'.a) = 0
       \/ ecma_string_get_size(Cur, last'.b) = 0

\* the operand such a concatenation returns: the second one if the first is
\* empty, the first one otherwise
ConcatOther == IF ecma_string_get_size(Cur, last'.a) = 0 THEN last'.b ELSE last'.a

\* the operand it does not return
ConcatEmpty == IF ecma_string_get_size(Cur, last'.a) = 0 THEN last'.a ELSE last'.b

\* what a step does that returns the operand `other` without overflow: its
\* refs are increased by 1 and nothing else changes
ReturnsOperandItself(other) ==
    /\ last'.ret = other
    /\ strings'[other].refs = strings[other].refs + 1
    /\ \A p \in StringPtrs : p # other => strings'[p] = strings[p]
    /\ heap' = heap
    /\ numbers' = numbers

\* C16 as stated: a concatenation with an operand of byte-size 0 allocates
\* no heap chunk block and returns the other operand through acquire (the
\* second if the first is empty, also when both are; else the first); if no
\* refcount overflow occurs the result is that operand itself with refs
\* increased by 1 and the empty operand's refs unchanged.
C16_EmptyOperandAllocatesNoBlock ==
    [][ConcatWithEmptyOperand
       => /\ CallsTo(last'.calls, "mem_heap_alloc_block") = {}
          /\ last'.ret = ecma_copy_or_ref_ecma_string(Cur, ConcatOther, last'.in).ret
          /\ ~last'.ovf => ReturnsOperandItself(ConcatOther)]_vars

\* C16, amended: a concatenation with an operand of byte-size 0 returns the
\* other operand through acquire; it allocates no heap block unless the
\* refcount of that operand overflows, the GC pass releases none of its
\* references and the operand is a HEAP_CHUNKS descriptor, in which case
\* the deep copy allocates one block; if no overflow occurs the result is
\* that operand itself with refs increased by 1, nothing is allocated and
\* every other descriptor is unchanged.
C16_EmptyOperandIsAcquire ==
    [][ConcatWithEmptyOperand
       => /\ last'.ret = ecma_copy_or_ref_ecma_string(Cur, ConcatOther, last'.in).ret
          /\ CurNext = [ecma_copy_or_ref_ecma_string(Cur, ConcatOther, last'.in).st
                            EXCEPT !.calls = <<>>]
          /\ CallsTo(last'.calls, "mem_heap_alloc_block") # {}
                => /\ last'.ovf
                   /\ last'.in = 0
                   /\ last'.ret # ConcatOther
                   /\ strings[ConcatOther].container = ECMA_STRING_CONTAINER_HEAP_CHUNKS
                   /\ Cardinality(CallsTo(last'.calls, "mem_heap_alloc_block")) = 1
          /\ ~last'.ovf
                => /\ ReturnsOperandItself(ConcatOther)
                   /\ \A i \in 1..Len(last'.calls) : last'.calls[i].f \notin AllocatorCalls]_vars

C16_Witness ==
    /\ last.op = "concat"
    /\ ~last.ovf
    /\ last.a # last.b
    /\ ecma_string_get_size(Cur, last.a) = 0
    /\ ecma_string_get_size(Cur, last.b) > 0
    /\ last.ret = last.b
    /\ strings[last.b].refs = 2
    /\ strings[last.a].refs = 1

RECURSIVE CodeUnitsOf(_)
\* the code units the bytes s encode, in order
CodeUnitsOf(s) ==
    IF s = <<>> THEN <<>>
    ELSE LET cu == lit_read_code_unit_from_utf8(s)
         IN  <<cu>> \o CodeUnitsOf(SubSeq(s, Len(lit_code_unit_to_utf8(cu)) + 1, Len(s)))

RECURSIVE BytesOfCodeUnits(_)
\* the bytes that encode the code units cus
BytesOfCodeUnits(cus) ==
    IF cus = <<>> THEN <<>>
    ELSE lit_code_unit_to_utf8(cus[1]) \o BytesOfCodeUnits(Tail(cus))

\* C19: substring.  For a descriptor s of code-unit-length L and positions
\* i <= j <= L, substr(s, i, j) has the bytes of the code units i..j-1 of s
\* and code-unit-length j - i, and for every k with j <= k <= L its bytes
\* followed by those of substr(s, j, k) are those of substr(s, i, k); if
\* start >= end the result is the empty-string magic descriptor; s and
\* every other descriptor are unchanged.  The three substrings of the
\* second part are taken of a descriptor that is alone in the pool.
C19_Substring ==
    [][(last'.op = "substr")
       => LET s == last'.a
              i == last'.in[1]
              j == last'.in[2]
              r == last'.ret
              cus == CodeUnitsOf(Materialize(Cur, s))
          IN  /\ i <= j =>
                   /\ Materialize(CurNext, r) = BytesOfCodeUnits(SubSeq(cus, i + 1, j))
                   /\ ecma_string_get_length(CurNext, r) = j - i
                   /\ \A k \in IF NumberOfLiveStrings = 1 THEN j..Len(cus) ELSE {} :
                         LET x == ecma_string_substr(Cur, s, j, k)
                             y == ecma_string_substr(Cur, s, i, k)
                         IN  Materialize(CurNext, r) \o Materialize(x.st, x.ret)
                                = Materialize(y.st, y.ret)
              /\ i >= j =>
                   /\ strings'[r].container = ECMA_STRING_CONTAINER_MAGIC_STRING
                   /\ PtrOf(strings'[r].u) = LIT_MAGIC_STRING__EMPTY
              /\ ~IsLive(strings, r)
              /\ \A p \in StringPtrs : p # r => strings'[p] = strings[p]
              /\ \A p \in BlockPtrs : heap[p] # NoBlock => heap'[p] = heap[p]
              /\ numbers' = numbers
              /\ Materialize(CurNext, s) = Materialize(Cur, s)]_vars

C19_Witness ==
    /\ last.op = "substr"
    /\ last.in = <<1, 2>>
    /\ NumberOfLiveStrings = 2
    /\ Materialize(Cur, last.a) = <<97, 195, 169, 98>>
    /\ Materialize(Cur, last.ret) = <<195, 169>>
    /\ strings[last.ret].container = ECMA_STRING_CONTAINER_HEAP_CHUNKS

\* the code units cus without the maximal leading run and the maximal
\* trailing run of white space and line terminators
TrimmedCodeUnits(cus) ==
    LET keep == {i \in 1..Len(cus) : ~IsWhiteSpaceOrLineTerminator(cus[i])}
    IN  IF keep = {} THEN <<>>
        ELSE SubSeq(cus, CHOOSE i \in keep : \A q \in keep : i <= q,
                         CHOOSE i \in keep : \A q \in keep : q <= i)

\* C20: trim.  trim(s) has the bytes of s without the maximal leading and
\* the maximal trailing run of code units that are white space or line
\* terminators; if nothing is left (s empty or made of such code units
\* only) it is the empty-string MAGIC descriptor; trim is idempotent:
\* trim(trim(s)) has the bytes of trim(s) and compares equal to it.
C20_Trim ==
    [][(last'.op = "trim")
       => LET s == last'.a
              r == last'.ret
              kept == TrimmedCodeUnits(CodeUnitsOf(Materialize(Cur, s)))
              again == ecma_string_trim(CurNext, r)
          IN  /\ Materialize(CurNext, r) = BytesOfCodeUnits(kept)
              /\ kept = <<>> =>
                   /\ strings'[r].container = ECMA_STRING_CONTAINER_MAGIC_STRING
                   /\ PtrOf(strings'[r].u) = LIT_MAGIC_STRING__EMPTY
              /\ (\E p \in StringPtrs : ~IsLive(strings', p)) =>
                   /\ Materialize(again.st, again.ret) = Materialize(CurNext, r)
                   /\ ecma_compare_ecma_strings(again.st, again.ret, r).ret
                   /\ strings'[r].container = again.st.strings[again.ret].container]_vars

C20_Witness ==
    /\ last.op = "trim"
    /\ Materialize(Cur, last.a) = <<226, 128, 168, 97, 194, 160>>
    /\ Materialize(Cur, last.ret) = <<97>>
    /\ \E p \in StringPtrs : ~IsLive(strings, p)

\* the descriptor from-magic-id(id) compared with descriptor d, after the
\* descriptor `spare` has been released to make room in the pool
EqualsMagicAfterRelease(d, id, spare) ==
    LET st1 == ecma_deref_ecma_string(Cur, spare)
        mg == ecma_new_ecma_string_from_magic_string_id(st1, id)
    IN  ecma_compare_ecma_strings(mg.st, d, mg.ret).ret

\* C17: the concatenation of two non-empty descriptors whose bytes together
\* are a magic entry m is a HEAP_CHUNKS descriptor that compares equal to
\* from-magic-id(m); ecma_is_string_magic applied to it completes, returns
\* false and reports no id.
C17_ConcatDoesNotCanonicalize ==
    /\ (/\ last.op = "concat"
        /\ ecma_string_get_size(Cur, last.a) > 0
        /\ ecma_string_get_size(Cur, last.b) > 0
        /\ MagicIdsOf(Materialize(Cur, last.ret)) # {})
       => /\ strings[last.ret].container = ECMA_STRING_CONTAINER_HEAP_CHUNKS
          /\ \A id \in MagicIdsOf(Materialize(Cur, last.ret)) :
                EqualsMagicAfterRelease(last.ret, id, last.a)
    /\ (/\ last.op = "is_string_magic"
        /\ strings[last.a].container = ECMA_STRING_CONTAINER_HEAP_CHUNKS
        /\ MagicIdsOf(Materialize(Cur, last.a)) # {})
       => /\ fault = "none"
          /\ ~last.ret.ret
          /\ last.ret.id = LIT_MAGIC_STRING__COUNT

\* the bytes B are the canonical decimal text of a uint32 below 2^32 - 1
IsArrayIndexText(B) ==
    /\ IsDigits(B)
    /\ Len(B) = 1 \/ B[1] # 48
    /\ \/ Len(B) < 10
       \/ /\ Len(B) = 10
          /\ \E i \in 1..10 :
                /\ \A j \in 1..(i - 1) : B[j] = WDigits(UINT32_MAX)[j]
                /\ B[i] < WDigits(UINT32_MAX)[i]

\* C18: array index.  ecma_string_get_array_index(s) returns true with
\* output n exactly when the bytes of s are the canonical decimal text of a
\* uint32 n < 2^32 - 1 (so false for 4294967295 on either path, for the
\* empty string, leading zeros, negative numbers and values from 2^32 on);
\* the temporary descriptor of the slow path is released before returning.
C18_ArrayIndex ==
    last.op = "get_array_index" =>
        LET B == Materialize(Cur, last.a)
            alloc == CallsTo(last.calls, "ecma_alloc_string")
            dealloc == CallsTo(last.calls, "ecma_dealloc_string")
        IN  /\ last.ret.ret <=> IsArrayIndexText(B)
            /\ last.ret.ret => WDigits(last.ret.out) = B
            /\ NumberOfLiveStrings = 1
            /\ IF strings[last.a].container = ECMA_STRING_CONTAINER_UINT32_IN_DESC
               THEN alloc = {} /\ dealloc = {}
               ELSE /\ Cardinality(alloc) = 1
                    /\ Cardinality(dealloc) = 1
                    /\ \A i \in alloc, j \in dealloc :
                          i < j /\ last.calls[i].p = last.calls[j].p

C18_Witness ==
    /\ last.op = "get_array_index"
    /\ strings[last.a].container = ECMA_STRING_CONTAINER_HEAP_CHUNKS
    /\ Materialize(Cur, last.a) = WDigits(UINT32_MAX)
    /\ last.ret.out = UINT32_MAX
    /\ ~last.ret.ret

\* the live descriptors whose payload pointer is the heap block b
OwnersOfBlock(b) ==
    {d \in StringPtrs : /\ strings[d].container = ECMA_STRING_CONTAINER_HEAP_CHUNKS
                        /\ PtrOf(strings[d].u) = b}

\* the live descriptors whose payload pointer is the number cell n
OwnersOfNumber(n) ==
    {d \in StringPtrs : /\ strings[d].container = ECMA_STRING_CONTAINER_HEAP_NUMBER
                        /\ PtrOf(strings[d].u) = n}

\* C26: exclusive payload ownership.  In every state reached by
\* constructors, concatenation, acquire (with the overflow deep copy) and
\* release, each live heap block and each live number cell is referenced by
\* exactly one live descriptor, no live descriptor references a freed block
\* or cell, and no block or cell is freed twice.
C26_ExclusiveOwnership ==
    /\ \A b \in BlockPtrs : heap[b].live => Cardinality(OwnersOfBlock(b)) = 1
    /\ \A n \in NumberPtrs : numbers[n].live => Cardinality(OwnersOfNumber(n)) = 1
    /\ \A d \in StringPtrs : IsLive(strings, d) => ~IsDangling(Cur, d)
    /\ fault # "double_free"


(***************************************************************************)
(* A fifth specification for the arithmetic of the heap chunk header.  A   *)
(* text of tens of thousands of bytes is out of reach of the byte-level    *)
(* operators, so the block a constructor makes is followed here by its     *)
(* sizes alone: the size asked of the allocator, the size the header       *)
(* records, the number of bytes copied behind the header, and the size     *)
(* ecma_deref_ecma_string hands back to the allocator.                     *)
(***************************************************************************)
\* the block ecma_new_ecma_string_from_utf8 makes for a text of string_size
\* bytes that is in neither magic table
from_utf8_block(string_size) ==
    [alloc |-> string_size + HeaderSize,
     size |-> string_size % Uint16Limit,
     stored |-> string_size]

\* the block ecma_concat_ecma_strings makes for two non-empty operands of
\* str1_size and str2_size bytes (the sizes ecma_string_get_size reports)
concat_block(str1_size, str2_size) ==
    LET new_size == str1_size + str2_size
    IN  [alloc |-> new_size + HeaderSize,
         size |-> new_size % Uint16Limit,
         stored |-> str1_size + str2_size]

\* the size ecma_deref_ecma_string passes to mem_heap_free_block for the
\* block with header data_p
deref_block_size(data_p) == data_p.size + HeaderSize

\* byte-sizes of texts: small ones and the ones around the uint16_t limit
HeaderTextSizes ==
    {1, 2, 3, 4, 100, 1000, 32767, 32768, 40000, 65534, 65535, 65536, 65537, 131071}

\* sizes ecma_string_get_size can report for an operand of a concatenation
HeaderOperandSizes == {n \in HeaderTextSizes : n < Uint16Limit}

HeapChunkFromUtf8(string_size) ==
    /\ fault = "none"
    /\ last' = Op("chunk_from_utf8", 0, 0, string_size, from_utf8_block(string_size), FALSE)
    /\ UNCHANGED <<strings, heap, numbers, fault>>

HeapChunkConcat(str1_size, str2_size) ==
    /\ fault = "none"
    /\ last' = Op("chunk_concat", str1_size, str2_size, 0,
                  concat_block(str1_size, str2_size), FALSE)
    /\ UNCHANGED <<strings, heap, numbers, fault>>

\* the last reference to the block made by the previous step is released
HeapChunkDeref ==
    /\ fault = "none"
    /\ last.op \in {"chunk_from_utf8", "chunk_concat"}
    /\ last' = Op("chunk_deref", last.a, last.b, last.ret, deref_block_size(last.ret), FALSE)
    /\ UNCHANGED <<strings, heap, numbers, fault>>

NextHeader ==
    \/ \E string_size \in HeaderTextSizes : HeapChunkFromUtf8(string_size)
    \/ \E str1_size, str2_size \in HeaderOperandSizes : HeapChunkConcat(str1_size, str2_size)
    \/ HeapChunkDeref

SpecHeader == Init /\ [][NextHeader]_vars

\* C21: for every heap chunk block made by from-bytes or by concatenation,
\* for every byte-size the operation accepts, the byte-size recorded in the
\* header equals the number of text bytes stored behind the header, and the
\* size passed to the allocator when the block is freed equals the size
\* passed when it was allocated.
C21_HeaderMatchesBlock ==
    /\ last.op \in {"chunk_from_utf8", "chunk_concat"} =>
           last.ret.size = last.ret.stored
    /\ last.op = "chunk_deref" => last.ret = last.in.alloc


\* two descriptors of the pool that hold the same variant and payload word
SameVariantAndPayload(a, b) ==
    /\ strings[a].container = strings[b].container
    /\ strings[a].u = strings[b].u

\* C22: for any two descriptors of the pool with equal hash fields that do
\* not share the same variant and payload word, ecma_compare_ecma_strings
\* returns true exactly when their materialized byte sequences are identical
\* over the full byte-size, in the HEAP_CHUNKS-vs-HEAP_CHUNKS path and in
\* every cross-variant path, also for text that contains a zero byte before
\* the first differing byte.
C22_CompareIsByteEquality ==
    last.op \in CompareBuildOps =>
        \A a, b \in LiveStrings :
            (strings[a].hash = strings[b].hash /\ ~SameVariantAndPayload(a, b)) =>
                (Equal(a, b) <=> Materialize(Cur, a) = Materialize(Cur, b))


\* C23: for every descriptor produced by a constructor other than
\* concatenation, every assertion evaluated by ecma_is_string_magic and by
\* ecma_is_ex_string_magic holds: whenever the descriptor is not of the
\* queried magic variant and its code-unit-length is at most the magic
\* length limit, materializing it into the buffer of magic-length-limit
\* bytes returns a positive byte count and the lookup finds no match, so the
\* operation returns false.  The assertions are evaluated in builds with
\* assertions, last.in = TRUE.
C23_MagicAssertionsHold ==
    /\ (/\ last.op = "is_string_magic"
        /\ last.in
        /\ strings[last.a].container # ECMA_STRING_CONTAINER_MAGIC_STRING
        /\ ecma_string_get_length(Cur, last.a) <= LIT_MAGIC_STRING_LENGTH_LIMIT)
       => /\ ecma_is_string_magic_longpath(Cur, last.a).copied > 0
          /\ ~ecma_is_string_magic_longpath(Cur, last.a).ret
          /\ fault = "none"
          /\ ~last.ret.ret
    /\ (/\ last.op = "is_ex_string_magic"
        /\ last.in
        /\ strings[last.a].container # ECMA_STRING_CONTAINER_MAGIC_STRING_EX
        /\ ecma_string_get_length(Cur, last.a) <= LIT_MAGIC_STRING_LENGTH_LIMIT)
       => /\ ecma_is_ex_string_magic_longpath(Cur, last.a).copied > 0
          /\ ~ecma_is_ex_string_magic_longpath(Cur, last.a).ret
          /\ fault = "none"
          /\ ~last.ret.ret


\* the number of decimal digits of a uint32 n: the k with 10^(k-1) <= n < 10^k,
\* 1 for n = 0, 10 for n >= 1000000000
DecimalDigitCount(n) ==
    CHOOSE k \in 1..10 :
        /\ k = 1 \/ WLeq(WOfInt(10 ^ (k - 1)), n)
        /\ k = 10 \/ WLess(n, WOfInt(10 ^ k))

\* the live descriptors of variant UINT32_IN_DESC
Uint32Strings ==
    {d \in StringPtrs : /\ IsLive(strings, d)
                        /\ strings[d].container = ECMA_STRING_CONTAINER_UINT32_IN_DESC}

\* C24: for every uint32 n, the byte-size and the code-unit-length reported
\* for a UINT32_IN_DESC descriptor holding n both equal the number of decimal
\* digits of n (1 for n = 0, 10 for n >= 1000000000), which equals the
\* number of bytes the decimal formatter writes when the descriptor is
\* materialized, so bytes_copied = required_buffer_size.
C24_Uint32DigitCount ==
    \A d \in Uint32Strings :
        LET n == strings[d].u
            k == DecimalDigitCount(n)
        IN  /\ ecma_string_get_size(Cur, d) = k
            /\ ecma_string_get_length(Cur, d) = k
            /\ Len(ecma_uint32_to_utf8_string(n)) = k
            /\ ecma_string_to_utf8_string(Cur, d, k).ret = k
            /\ Len(ecma_string_to_utf8_string(Cur, d, k).buf) = k

\* the descriptor of 4294967295 was materialized into a buffer of 10 bytes
C24_Witness ==
    /\ last.op = "to_utf8_string"
    /\ last.a \in Uint32Strings
    /\ strings[last.a].u = UINT32_MAX
    /\ last.in = 10
    /\ last.ret.ret = 10
    /\ Len(last.ret.buf) = 10


\* the operations that only read their operands
ReadOnlyOps ==
    {"compare", "compare_relational", "get_size", "get_length", "get_char_at_pos",
     "get_byte_at_pos", "to_utf8_string", "to_number", "get_array_index",
     "is_string_magic", "is_ex_string_magic", "hash"}

\* the calls to f with the pointer p and the size n among the calls
CallsWith(calls, f, p, n) ==
    {i \in CallsTo(calls, f) : calls[i].p = p /\ calls[i].n = n}

\* every allocation among the calls is undone by a later call among them:
\* a heap block is freed with the size it was allocated with, a descriptor
\* is deallocated, and no number cell is allocated
CallsBalanced(calls) ==
    /\ \A i \in CallsTo(calls, "mem_heap_alloc_block") :
           /\ Cardinality(CallsWith(calls, "mem_heap_alloc_block", calls[i].p, calls[i].n))
                = Cardinality(CallsWith(calls, "mem_heap_free_block", calls[i].p, calls[i].n))
           /\ \E j \in CallsWith(calls, "mem_heap_free_block", calls[i].p, calls[i].n) : i < j
    /\ Cardinality(CallsTo(calls, "mem_heap_alloc_block"))
         = Cardinality(CallsTo(calls, "mem_heap_free_block"))
    /\ \A i \in CallsTo(calls, "ecma_alloc_string") :
           \E j \in CallsWith(calls, "ecma_dealloc_string", calls[i].p, 0) : i < j
    /\ Cardinality(CallsTo(calls, "ecma_alloc_string"))
         = Cardinality(CallsTo(calls, "ecma_dealloc_string"))
    /\ CallsTo(calls, "ecma_alloc_number") = {}

\* C25: the read-only operations (equality, relational compare, byte-size,
\* length, char-at, byte-at, materialization, string-to-number, array-index
\* test, magic recognition, hash) leave every descriptor's refs, hash,
\* variant and payload unchanged, and the live descriptors, heap blocks and
\* number cells are the same after the call as before: every scratch heap
\* buffer and the temporary descriptor of the array-index test are freed,
\* with the same size that was allocated.
C25_ReadOnlyFrame ==
    [][(last'.op \in ReadOnlyOps)
       => /\ strings' = strings
          /\ heap' = heap
          /\ numbers' = numbers
          /\ CallsBalanced(last'.calls)]_vars

\* the array-index test ran on a HEAP_CHUNKS descriptor: it allocated a
\* scratch buffer and the temporary descriptor, and found an index
C25_Witness ==
    /\ last.op = "get_array_index"
    /\ strings[last.a].container = ECMA_STRING_CONTAINER_HEAP_CHUNKS
    /\ last.ret.ret
    /\ CallsTo(last.calls, "ecma_alloc_string") # {}
    /\ CallsTo(last.calls, "mem_heap_alloc_block") # {}
    /\ NumberOfLiveStrings = 2

====
